---- MODULE Spec2Model ----
(***************************************************************************)
(* Luna venue-discovery backend (Luna-Backend/main.py, agent.py,           *)
(* utils/distance.py, models/db_models.py, seed_data.py).                  *)
(*                                                                         *)
(* The state is the content of the database tables plus, for every request *)
(* being handled, the position of its handler and the handler's locals.    *)
(* A handler is cut into steps at its awaited database operations: a read  *)
(* (session.get / session.execute) sees the committed rows, and a          *)
(* session.commit() flushes the session's pending rows and commits them in *)
(* one step.                                                               *)
(***************************************************************************)
EXTENDS Integers, Sequences, FiniteSets, TLC

(***************************************************************************)
(* Bounds of the model.                                                    *)
(***************************************************************************)
NumUsers == 5
NumVenues == 2
NumProcs == 3
MaxClock == 2
MaxRand == 2
NumRecUsers == 2
MaxCount == 4
MaxDistance == 810
MaxChats == 2
MaxMessages == 3
MaxStored == 101
NumFeedUsers == 12

(***************************************************************************)
(* Program constants.                                                      *)
(***************************************************************************)
Threshold == 5
NinetyDays == 90

\* main.py 1401: threshold: int = 5
HighlightThreshold == 5

Users == 1..NumUsers
Venues == 1..NumVenues
Procs == 1..NumProcs
\* random.randint(1000, 9999), cut down to MaxRand values
RandInts == 1..MaxRand
\* a NULL column / Python None
Null == 0 - 1
\* an id that is in no table
NoSuchId == 0

Min(a, b) == IF a <= b THEN a ELSE b

VARIABLES
    interests,      \* table interests: rows [user_id, venue_id, created_at]
    activities,     \* table activities: rows [id, user_id, venue_id, action, created_at]
    action_items,   \* table action_items
    friendships,    \* table friendships: rows [user_id, friend_id]
    action_item_confirmations,  \* table action_item_confirmations
    chats,          \* table chats: rows [id, action_item_id, venue_id, created_by]
    chat_participants,  \* table chat_participants: rows [chat_id, user_id]
    chat_messages,  \* table chat_messages: rows [id, chat_id, sender_id, created_at]
    now,            \* datetime.now()
    pc,             \* per request slot: position of the handler
    req,            \* per request slot: the request being handled
    loc,            \* per request slot: the handler's local variables
    resp,           \* per request slot: the response (or the raised error)
    hist            \* history: the initial rows, and whether agent steps overlapped

goVars == <<action_item_confirmations, chats, chat_participants, chat_messages>>
dbVars == <<interests, activities, action_items, friendships, goVars>>
procVars == <<pc, req, loc, resp>>
vars == <<interests, activities, action_items, friendships, action_item_confirmations,
          chats, chat_participants, chat_messages, now, pc, req, loc, resp, hist>>

(***************************************************************************)
(* Strings the code inspects character by character are sequences of       *)
(* one-character strings.                                                  *)
(***************************************************************************)
LowerChar(c) ==
    CASE c = "B" -> "b" [] c = "C" -> "c" [] c = "E" -> "e" [] c = "P" -> "p"
      [] c = "R" -> "r" [] c = "S" -> "s" [] OTHER -> c

lower(s) == [i \in 1..Len(s) |-> LowerChar(s[i])]

\* Python's `a in b` on strings
IsSubstring(a, b) ==
    \E i \in 0..(Len(b) - Len(a)) : SubSeq(b, i + 1, i + Len(a)) = a

\* venues.category: the model's venues 1, 2, 3 are the seeded venue_10 (a bar,
\* bookable), venue_14 and venue_19
VenueCategory(v) ==
    IF v = 1 THEN <<"B", "a", "r">>
    ELSE IF v = 2 THEN <<"C", "u", "l", "t", "u", "r", "a", "l">>
    ELSE <<"P", "a", "r", "k">>

booking_categories ==
    { <<"r", "e", "s", "t", "a", "u", "r", "a", "n", "t">>, <<"b", "a", "r">>,
      <<"c", "l", "u", "b">>, <<"l", "o", "u", "n", "g", "e">>,
      <<"b", "i", "s", "t", "r", "o">>, <<"c", "a", "f", "e">> }

(***************************************************************************)
(* Queries on the tables.                                                  *)
(***************************************************************************)
\* select(InterestDB.user_id).where(InterestDB.venue_id == venue_id)
InterestedUsers(v) == { i.user_id : i \in { j \in interests : j.venue_id = v } }

InterestRows(u, v) == { i \in interests : i.user_id = u /\ i.venue_id = v }

ActivityRows(u, v) ==
    { a \in activities : a.user_id = u /\ a.venue_id = v /\ a.action = "interested" }

ItemById(id) == { a \in action_items : a.id = id }

ActiveItems(v) == { a \in action_items : a.venue_id = v /\ a.status = "active" }

(***************************************************************************)
(* Responses.                                                              *)
(***************************************************************************)
NoReq == [op |-> "none", user_id |-> NoSuchId, venue_id |-> NoSuchId, item_id |-> <<>>]

NoLoc == [existing_interest |-> FALSE, activities |-> {},
          interested_user_ids |-> {}, existing_action_item |-> FALSE]

NoResp == [code |-> 0, success |-> FALSE, action_item |-> {}, log |-> "", count |-> 0,
           data |-> <<>>]

\* HTTPException(status_code=code) or an exception that escapes the handler (500)
ErrorResp(code) ==
    [code |-> code, success |-> FALSE, action_item |-> {}, log |-> "", count |-> 0,
     data |-> <<>>]

\* InterestResponse(success=True, message=...) / SuccessResponse(success=True, ...)
OkResp(log) ==
    [code |-> 200, success |-> TRUE, action_item |-> {}, log |-> log, count |-> 0,
     data |-> <<>>]

(***************************************************************************)
(* agent.py: action_item_agent.  r1 and r2 are its two random.randint      *)
(* draws.  The returned dict has exactly the keys listed here.             *)
(***************************************************************************)
action_type_of(venue_category) ==
    IF \E cat \in booking_categories : IsSubstring(cat, lower(venue_category))
    THEN "book_venue" ELSE "visit_venue"

\* The agent as it would be if it also returned the expiry date main.py reads.
action_item_agent_with_expiry(venue_id, interested_user_ids, r1, r2) ==
    IF Cardinality(interested_user_ids) < Threshold
    THEN [action_item_created |-> FALSE, threshold_met |-> FALSE]
    ELSE [action_item_created |-> TRUE,
          action_item_id |-> <<"action", venue_id, r1>>,
          action_code |-> <<"LUNA", venue_id, r2>>,
          action_type |-> action_type_of(VenueCategory(venue_id)),
          interested_user_ids |-> interested_user_ids,
          threshold_met |-> TRUE,
          created_at |-> now,
          expires_at |-> now + NinetyDays]

action_item_agent(venue_id, interested_user_ids, r1, r2) ==
    IF Cardinality(interested_user_ids) < Threshold
    THEN [action_item_created |-> FALSE, threshold_met |-> FALSE]
    ELSE [action_item_created |-> TRUE,
          action_item_id |-> <<"action", venue_id, r1>>,
          action_code |-> <<"LUNA", venue_id, r2>>,
          action_type |-> action_type_of(VenueCategory(venue_id)),
          interested_user_ids |-> interested_user_ids,
          threshold_met |-> TRUE,
          created_at |-> now]

\* main.py: ActionItemDB(id=agent_response["action_item_id"], ...)
NewActionItem(venue_id, agent_response) ==
    [id |-> agent_response.action_item_id,
     venue_id |-> venue_id,
     interested_user_ids |-> agent_response.interested_user_ids,
     action_type |-> agent_response.action_type,
     action_code |-> agent_response.action_code,
     threshold_met |-> TRUE,
     status |-> "active",
     created_at |-> agent_response.created_at,
     expires_at |-> agent_response.expires_at,
     archived_at |-> Null]

\* ActionItemResponse(action_item_created=True, ...)
ActionItemResponse(agent_response) ==
    [action_item_created |-> TRUE,
     action_item_id |-> agent_response.action_item_id,
     action_code |-> agent_response.action_code,
     interested_user_ids |-> agent_response.interested_user_ids]

\* An action item of a database migrated by migrate_action_items.py: a UUID
\* id, status 'pending' rewritten to 'active', expires_at = created_at + 90 days.
MigratedItem(venue_id, ids, expires_at) ==
    [id |-> <<"uuid", venue_id>>,
     venue_id |-> venue_id,
     interested_user_ids |-> ids,
     action_type |-> action_type_of(VenueCategory(venue_id)),
     action_code |-> <<"LUNA-old", venue_id>>,
     threshold_met |-> TRUE,
     status |-> "active",
     created_at |-> expires_at - NinetyDays,
     expires_at |-> expires_at,
     archived_at |-> Null]

\* seed_data.py: one InterestDB row and one ActivityDB row per seeded interest
SeedInterest(u, v) == [user_id |-> u, venue_id |-> v, created_at |-> 0]

SeedActivity(u, v) ==
    [id |-> <<u, v, 0>>, user_id |-> u, venue_id |-> v,
     action |-> "interested", created_at |-> 0]

(***************************************************************************)
(* POST /interests: express_interest (main.py 762-964).                    *)
(***************************************************************************)
Finish(p, r) ==
    /\ pc' = [pc EXCEPT ![p] = "done"]
    /\ resp' = [resp EXCEPT ![p] = r]

Goto(p, label) ==
    /\ pc' = [pc EXCEPT ![p] = label]
    /\ UNCHANGED resp

\* 787-810: the user and venue lookups and the existing-interest query
ToggleBegin(p, u, v) ==
    /\ pc[p] = "idle"
    /\ req' = [req EXCEPT ![p] = [op |-> "toggle", user_id |-> u, venue_id |-> v,
                                  item_id |-> <<>>]]
    /\ IF u \notin Users \/ v \notin Venues
       THEN /\ Finish(p, ErrorResp(404))
            /\ UNCHANGED loc
       ELSE /\ loc' = [loc EXCEPT ![p].existing_interest = (InterestRows(u, v) # {})]
            /\ Goto(p, IF InterestRows(u, v) # {} THEN "off_select" ELSE "on_commit")
    /\ UNCHANGED <<dbVars, now, hist>>

\* 818-835: session.delete(existing_interest), then the query for the pair's
\* 'interested' activities, each marked for deletion
ToggleOffSelect(p) ==
    /\ pc[p] = "off_select"
    /\ loc' = [loc EXCEPT ![p].activities =
                  { a.id : a \in ActivityRows(req[p].user_id, req[p].venue_id) }]
    /\ Goto(p, "off_commit")
    /\ UNCHANGED <<dbVars, now, req, hist>>

\* The toggle-off as it would be if it removed the interest row only.
ToggleOffCommit_keeps_activity(p) ==
    /\ pc[p] = "off_commit"
    /\ interests' = interests \ InterestRows(req[p].user_id, req[p].venue_id)
    /\ Finish(p, OkResp("Interest removed"))
    /\ UNCHANGED <<activities, action_items, friendships, goVars, now, req, loc, hist>>

\* 838-845: the commit deletes the interest row by its primary key and the
\* selected activities by their ids; a DELETE that matches no row only warns
ToggleOffCommit(p) ==
    /\ pc[p] = "off_commit"
    /\ interests' = interests \ InterestRows(req[p].user_id, req[p].venue_id)
    /\ activities' = { a \in activities : a.id \notin loc[p].activities }
    /\ Finish(p, OkResp("Interest removed"))
    /\ UNCHANGED <<action_items, friendships, goVars, now, req, loc, hist>>

\* 852-873: the new interest and activity rows, committed together; a
\* primary-key conflict fails the commit, and the exception leaves the handler
ToggleOnCommit(p) ==
    /\ pc[p] = "on_commit"
    /\ LET u == req[p].user_id
           v == req[p].venue_id
           new_interest == [user_id |-> u, venue_id |-> v, created_at |-> now]
           new_activity == [id |-> <<u, v, now>>, user_id |-> u, venue_id |-> v,
                            action |-> "interested", created_at |-> now]
           conflict == \/ InterestRows(u, v) # {}
                       \/ \E a \in activities : a.id = new_activity.id
       IN  IF conflict
           THEN /\ Finish(p, ErrorResp(500))
                /\ UNCHANGED <<interests, activities>>
           ELSE /\ interests' = interests \cup {new_interest}
                /\ activities' = activities \cup {new_activity}
                /\ Goto(p, "on_read")
    /\ UNCHANGED <<action_items, friendships, goVars, now, req, loc, hist>>

\* 881-887: all interested user ids of the venue
ToggleOnRead(p) ==
    /\ pc[p] = "on_read"
    /\ loc' = [loc EXCEPT ![p].interested_user_ids = InterestedUsers(req[p].venue_id)]
    /\ Goto(p, "on_check")
    /\ UNCHANGED <<dbVars, now, req, hist>>

\* 889-899: the query for an existing action item of the venue
\* (status == "pending"); scalar_one_or_none() raises on several rows
ExistingActionItems(v) ==
    { a \in action_items : a.venue_id = v /\ a.status = "pending" }

ToggleOnCheck(p) ==
    /\ pc[p] = "on_check"
    /\ IF Cardinality(ExistingActionItems(req[p].venue_id)) > 1
       THEN /\ Finish(p, ErrorResp(500))
            /\ UNCHANGED loc
       ELSE /\ loc' = [loc EXCEPT ![p].existing_action_item =
                          (ExistingActionItems(req[p].venue_id) # {})]
            /\ Goto(p, "on_agent")
    /\ UNCHANGED <<dbVars, now, req, hist>>

\* The except clause as it would be if it let the exception leave the handler.
AgentErrorResp_raises == ErrorResp(500)

\* 957-964: except Exception: the agent step failed, the interest is saved
AgentErrorResp == OkResp("Action item agent error")

\* 942-950: the action item's commit failed: rollback, the interest is saved
CommitErrorResp == OkResp("Failed to commit action item")

\* 951-956: no action item needed
NoItemResp == OkResp("")

\* 931-941
CreatedResp(agent_response) ==
    [code |-> 200, success |-> TRUE,
     action_item |-> {ActionItemResponse(agent_response)},
     log |-> "Action item created", count |-> 0, data |-> <<>>]

\* action_items.id is the primary key, action_items.action_code is unique
ItemConflict(item) ==
    \E a \in action_items : a.id = item.id \/ a.action_code = item.action_code

\* 901-964: the agent call and, when it reports a created item and no existing
\* item was found, the insert of the action item in its own transaction
ToggleOnAgent(p, r1, r2) ==
    /\ pc[p] = "on_agent"
    /\ LET v == req[p].venue_id
           agent_response == action_item_agent(v, loc[p].interested_user_ids, r1, r2)
       IN  IF agent_response.action_item_created /\ ~loc[p].existing_action_item
           THEN IF "expires_at" \notin DOMAIN agent_response
                THEN /\ Finish(p, AgentErrorResp)
                     /\ UNCHANGED action_items
                ELSE IF ItemConflict(NewActionItem(v, agent_response))
                THEN /\ Finish(p, CommitErrorResp)
                     /\ UNCHANGED action_items
                ELSE /\ action_items' = action_items \cup {NewActionItem(v, agent_response)}
                     /\ Finish(p, CreatedResp(agent_response))
           ELSE /\ Finish(p, NoItemResp)
                /\ UNCHANGED action_items
    /\ hist' = [hist EXCEPT !.overlap =
                  @ \/ \E q \in Procs \ {p} : /\ pc[q] = "on_agent"
                                              /\ req[q].venue_id = req[p].venue_id]
    /\ UNCHANGED <<interests, activities, friendships, goVars, now, req, loc>>

\* The response is sent and the slot takes the next request.
Return(p) ==
    /\ pc[p] = "done"
    /\ pc' = [pc EXCEPT ![p] = "idle"]
    /\ req' = [req EXCEPT ![p] = NoReq]
    /\ loc' = [loc EXCEPT ![p] = NoLoc]
    /\ resp' = [resp EXCEPT ![p] = NoResp]
    /\ UNCHANGED <<dbVars, now, hist>>

\* Time passes.
Tick ==
    /\ now < MaxClock
    /\ now' = now + 1
    /\ UNCHANGED <<dbVars, procVars, hist>>

(***************************************************************************)
(* Action-item lifecycle endpoints.  Each reads the item with session.get  *)
(* and commits its change; here the two are one step.                      *)
(***************************************************************************)
SetItem(old, new) == action_items' = (action_items \ {old}) \cup {new}

\* The authorization check as it would be if it let every caller pass.
NotAuthorized_never(action_item, u) == FALSE

\* The authorization check as it would be if it went by the interests held now.
NotAuthorized_without_interest(action_item, u) == InterestRows(u, action_item.venue_id) = {}

\* 1510-1512, 1552-1554, 1984-1985: if user_id not in action_item.interested_user_ids
NotAuthorized(action_item, u) == u \notin action_item.interested_user_ids

\* POST /action-items/{item_id}/complete (main.py 1502-1523)
CompleteActionItem(p, item_id, u) ==
    /\ pc[p] = "idle"
    /\ req' = [req EXCEPT ![p] = [op |-> "complete", user_id |-> u,
                                  venue_id |-> NoSuchId, item_id |-> item_id]]
    /\ IF ItemById(item_id) = {}
       THEN /\ Finish(p, ErrorResp(404))
            /\ UNCHANGED action_items
       ELSE LET action_item == CHOOSE a \in ItemById(item_id) : TRUE
            IN  IF NotAuthorized(action_item, u)
                THEN /\ Finish(p, ErrorResp(403))
                     /\ UNCHANGED action_items
                ELSE /\ SetItem(action_item, [action_item EXCEPT !.status = "completed"])
                     /\ Finish(p, OkResp("completed"))
    /\ UNCHANGED <<interests, activities, friendships, goVars, now, loc, hist>>

\* DELETE /action-items/{item_id} (main.py 1544-1565)
DismissActionItem(p, item_id, u) ==
    /\ pc[p] = "idle"
    /\ req' = [req EXCEPT ![p] = [op |-> "dismiss", user_id |-> u,
                                  venue_id |-> NoSuchId, item_id |-> item_id]]
    /\ IF ItemById(item_id) = {}
       THEN /\ Finish(p, ErrorResp(404))
            /\ UNCHANGED action_items
       ELSE LET action_item == CHOOSE a \in ItemById(item_id) : TRUE
            IN  IF NotAuthorized(action_item, u)
                THEN /\ Finish(p, ErrorResp(403))
                     /\ UNCHANGED action_items
                ELSE /\ SetItem(action_item, [action_item EXCEPT !.status = "dismissed"])
                     /\ Finish(p, OkResp("dismissed"))
    /\ UNCHANGED <<interests, activities, friendships, goVars, now, loc, hist>>

\* PUT /action-items/{item_id}/dismiss (main.py 1978-1995)
DismissActionItemPut(p, item_id, u) ==
    /\ pc[p] = "idle"
    /\ req' = [req EXCEPT ![p] = [op |-> "dismiss_put", user_id |-> u,
                                  venue_id |-> NoSuchId, item_id |-> item_id]]
    /\ IF ItemById(item_id) = {}
       THEN /\ Finish(p, ErrorResp(404))
            /\ UNCHANGED action_items
       ELSE LET action_item == CHOOSE a \in ItemById(item_id) : TRUE
            IN  IF NotAuthorized(action_item, u)
                THEN /\ Finish(p, ErrorResp(403))
                     /\ UNCHANGED action_items
                ELSE /\ SetItem(action_item, [action_item EXCEPT !.status = "dismissed",
                                                                 !.archived_at = now])
                     /\ Finish(p, OkResp("dismissed"))
    /\ UNCHANGED <<interests, activities, friendships, goVars, now, loc, hist>>

\* The sweep's query as it would be without the filter on the status.
ExpiredItems_any_status == { a \in action_items : a.expires_at <= now }

\* GET /action-items/expire (main.py 2160-2189)
ExpiredItems == { a \in action_items : a.status = "active" /\ a.expires_at <= now }

ExpireActionItems(p) ==
    /\ pc[p] = "idle"
    /\ req' = [req EXCEPT ![p] = [op |-> "expire", user_id |-> NoSuchId,
                                  venue_id |-> NoSuchId, item_id |-> <<>>]]
    /\ action_items' = (action_items \ ExpiredItems) \cup
           { [a EXCEPT !.status = "expired", !.archived_at = now] : a \in ExpiredItems }
    /\ Finish(p, [OkResp("expired") EXCEPT !.count = Cardinality(ExpiredItems)])
    /\ UNCHANGED <<interests, activities, friendships, goVars, now, loc, hist>>

\* the locals of the sweep after its query: the selected items and its `now`
SweepLoc(expired_items, t) ==
    [existing_interest |-> FALSE, activities |-> {}, interested_user_ids |-> {},
     existing_action_item |-> FALSE, expired_items |-> expired_items, now |-> t]

\* 2161-2172: now = datetime.now() and the query for the active items that
\* are due; the session holds the selected rows
ExpireBegin(p) ==
    /\ pc[p] = "idle"
    /\ req' = [req EXCEPT ![p] = [op |-> "expire", user_id |-> NoSuchId,
                                  venue_id |-> NoSuchId, item_id |-> <<>>]]
    /\ loc' = [loc EXCEPT ![p] = SweepLoc({ a.id : a \in ExpiredItems }, now)]
    /\ Goto(p, "expire_commit")
    /\ UNCHANGED <<dbVars, now, hist>>

\* 2174-2186: item.status = "expired", item.archived_at = now for every
\* selected row, and the commit: one UPDATE per row, by its primary key
ExpireCommit(p) ==
    /\ pc[p] = "expire_commit"
    /\ action_items' =
           { IF a.id \in loc[p].expired_items
             THEN [a EXCEPT !.status = "expired", !.archived_at = loc[p].now]
             ELSE a : a \in action_items }
    /\ Finish(p, [OkResp("expired") EXCEPT !.count = Cardinality(loc[p].expired_items)])
    /\ UNCHANGED <<interests, activities, friendships, goVars, now, req, loc, hist>>

(***************************************************************************)
(* The "Go Ahead" flow: initiate, confirm, decline (main.py 1596-1960).    *)
(* The sessions are created with autoflush=False (database.py 87-89): a    *)
(* query sees the committed rows, not the session's pending changes.       *)
(***************************************************************************)
\* select(ActionItemConfirmationDB).where(action_item_id == item_id)
ConfirmationsOf(item_id) ==
    { c \in action_item_confirmations : c.action_item_id = item_id }

\* ... .where(and_(action_item_id == item_id, user_id == user_id))
ConfirmationRows(item_id, u) == { c \in ConfirmationsOf(item_id) : c.user_id = u }

\* ... .where(and_(action_item_id == item_id, status == "confirmed"))
ConfirmedRows(item_id) == { c \in ConfirmationsOf(item_id) : c.status = "confirmed" }

\* select(ChatDB).where(ChatDB.action_item_id == item_id)
ChatsOf(item_id) == { c \in chats : c.action_item_id = item_id }

ParticipantsOf(chat_id) ==
    { m.user_id : m \in { n \in chat_participants : n.chat_id = chat_id } }

\* The entry as it would be if it reported every row as not yet answered.
ConfirmationEntry_pending(c) ==
    [user_id |-> c.user_id, status |-> "pending", responded_at |-> Null]

\* 1635-1643: the entry of the response's "confirmations" list made from a row
ConfirmationEntry(c) ==
    [user_id |-> c.user_id, status |-> c.status, responded_at |-> c.responded_at]

\* 1646-1655, 1688-1697: the response of initiate
InitiateResp(item_id, u, entries) ==
    [code |-> 200, success |-> TRUE, action_item |-> {}, log |-> "initiated", count |-> 0,
     data |-> [action_item_id |-> item_id,
               initiator |-> [user_id |-> u, status |-> "confirmed"],
               confirmations |-> entries]]

\* 1663-1670: ActionItemConfirmationDB(id=str(uuid.uuid4()), ...); the uuid is a
\* value no stored row has (rows are never deleted, n counts the stored rows)
NewConfirmation(n, item_id, user_id, initiator_id) ==
    [id |-> <<"uuid", n, user_id>>, action_item_id |-> item_id, user_id |-> user_id,
     initiator_id |-> initiator_id, status |-> "pending", responded_at |-> Null,
     created_at |-> now]

\* The status check of initiate as it would be without it.
InitiateRejectsStatus_none(status) == FALSE

\* 1618-1619: if action_item.status != "active": raise HTTPException(400)
InitiateRejectsStatus(status) == status # "active"

\* 1612-1654: the lookups and checks of initiate and the query for existing
\* confirmations; existing confirmations are returned as they are
InitiateBegin(p, item_id, u) ==
    /\ pc[p] = "idle"
    /\ req' = [req EXCEPT ![p] = [op |-> "initiate", user_id |-> u,
                                  venue_id |-> NoSuchId, item_id |-> item_id]]
    /\ IF ItemById(item_id) = {}
       THEN /\ Finish(p, ErrorResp(404))
            /\ UNCHANGED loc
       ELSE LET action_item == CHOOSE a \in ItemById(item_id) : TRUE
                existing_confirmations == ConfirmationsOf(item_id)
            IN  IF InitiateRejectsStatus(action_item.status)
                THEN /\ Finish(p, ErrorResp(400))
                     /\ UNCHANGED loc
                ELSE IF u \notin action_item.interested_user_ids
                THEN /\ Finish(p, ErrorResp(403))
                     /\ UNCHANGED loc
                ELSE IF existing_confirmations # {}
                THEN /\ Finish(p, InitiateResp(item_id, u,
                               { ConfirmationEntry(c) : c \in existing_confirmations }))
                     /\ UNCHANGED loc
                ELSE /\ loc' = [loc EXCEPT ![p].interested_user_ids =
                                   action_item.interested_user_ids]
                     /\ Goto(p, "initiate_commit")
    /\ UNCHANGED <<dbVars, now, hist>>

\* The loop of initiate as it would be if it did not skip the initiator.
InitiateTargets_all(interested_user_ids, u) == interested_user_ids

\* 1658-1661: for user_id in interested_user_ids: if user_id == request.user_id: continue
InitiateTargets(interested_user_ids, u) == interested_user_ids \ {u}

\* 1657-1697: one pending confirmation per interested user except the caller,
\* committed together
InitiateCommit(p) ==
    /\ pc[p] = "initiate_commit"
    /\ LET u == req[p].user_id
           item_id == req[p].item_id
           n == Cardinality(action_item_confirmations)
           rows == { NewConfirmation(n, item_id, user_id, u) :
                       user_id \in InitiateTargets(loc[p].interested_user_ids, u) }
       IN  /\ action_item_confirmations' = action_item_confirmations \cup rows
           /\ Finish(p, InitiateResp(item_id, u, { ConfirmationEntry(c) : c \in rows }))
    /\ UNCHANGED <<interests, activities, action_items, friendships, chats,
                   chat_participants, chat_messages, now, req, loc, hist>>

\* the locals of confirm and decline after their reads
GoLoc(confirmation, confirmed_count, existing_chat, action_item, confirmed_users) ==
    [existing_interest |-> FALSE, activities |-> {}, interested_user_ids |-> {},
     existing_action_item |-> FALSE, confirmation |-> confirmation,
     confirmed_count |-> confirmed_count, existing_chat |-> existing_chat,
     action_item |-> action_item, confirmed_users |-> confirmed_users]

\* The status check of confirm and decline as it would be without it.
AlreadyResponded_none(status) == FALSE

\* 1812-1813, 1947-1948: if confirmation.status != "pending": raise HTTPException(400)
AlreadyResponded(status) == status # "pending"

\* The count as it would be if the initiator were not counted.
ConfirmedCount_without_initiator(item_id) == Cardinality(ConfirmedRows(item_id)) + 1

\* The count as it would be if the query saw the status written at 1816 (a
\* session that flushes before a query).
ConfirmedCount_autoflush(item_id) == Cardinality(ConfirmedRows(item_id)) + 1 + 1 + 1

\* 1819-1832: the count of the committed confirmed rows, plus this
\* confirmation, plus the initiator (database.py 84-90: autoflush=False, the
\* query does not see the status written at 1816)
ConfirmedCount(item_id) == Cardinality(ConfirmedRows(item_id)) + 1 + 1

\* 1797-1878: the confirmation lookup (scalar_one_or_none() raises on several
\* rows), the checks, the confirmed count, the existing-chat lookup and, when
\* there is no chat, the action item and the confirmed users
ConfirmBegin(p, item_id, u) ==
    /\ pc[p] = "idle"
    /\ req' = [req EXCEPT ![p] = [op |-> "confirm", user_id |-> u,
                                  venue_id |-> NoSuchId, item_id |-> item_id]]
    /\ IF Cardinality(ConfirmationRows(item_id, u)) > 1
       THEN /\ Finish(p, ErrorResp(500))
            /\ UNCHANGED loc
       ELSE IF ConfirmationRows(item_id, u) = {}
       THEN /\ Finish(p, ErrorResp(404))
            /\ UNCHANGED loc
       ELSE LET confirmation == CHOOSE c \in ConfirmationRows(item_id, u) : TRUE
            IN  IF AlreadyResponded(confirmation.status)
                THEN /\ Finish(p, ErrorResp(400))
                     /\ UNCHANGED loc
                ELSE IF ConfirmedCount(item_id) >= 2 /\ Cardinality(ChatsOf(item_id)) > 1
                THEN /\ Finish(p, ErrorResp(500))
                     /\ UNCHANGED loc
                ELSE /\ loc' = [loc EXCEPT ![p] =
                                   GoLoc(confirmation, ConfirmedCount(item_id),
                                         ChatsOf(item_id), ItemById(item_id),
                                         { c.user_id : c \in ConfirmedRows(item_id) })]
                     /\ Goto(p, "confirm_commit")
    /\ UNCHANGED <<dbVars, now, hist>>

\* The UPDATE as it would be if it matched every row of the action item.
RespondedRows_of_item(confirmation, status) ==
    { IF c.action_item_id = confirmation.action_item_id
      THEN [c EXCEPT !.status = status, !.responded_at = now]
      ELSE c : c \in action_item_confirmations }

\* the UPDATE of the confirmation row, by its primary key
RespondedRows(confirmation, status) ==
    { IF c.id = confirmation.id
      THEN [c EXCEPT !.status = status, !.responded_at = now]
      ELSE c : c \in action_item_confirmations }

\* 1908-1915: the response of confirm
ConfirmResp(confirmed_count, chat_created, chat_id) ==
    [code |-> 200, success |-> TRUE, action_item |-> {}, log |-> "Confirmation recorded",
     count |-> confirmed_count,
     data |-> [status |-> "confirmed", chat_created |-> chat_created, chat_id |-> chat_id]]

\* 1850-1859: ChatDB(id=str(uuid.uuid4()), ...); chats are never deleted
NewChat(action_item, created_by) ==
    [id |-> <<"uuid", Cardinality(chats)>>, action_item_id |-> action_item.id,
     venue_id |-> action_item.venue_id, created_by |-> created_by, created_at |-> now]

ChatParticipant(chat_id, user_id) ==
    [chat_id |-> chat_id, user_id |-> user_id, joined_at |-> now]

\* The participants of a new chat as they would be without the initiator.
NewChatParticipants_no_initiator(initiator_id, confirmed_users, u) ==
    (confirmed_users \ {initiator_id}) \cup {u}

\* 1861-1893: the initiator, every confirmed user other than the initiator, and
\* the confirming user
NewChatParticipants(initiator_id, confirmed_users, u) ==
    {initiator_id} \cup (confirmed_users \ {initiator_id}) \cup {u}

\* 1815-1915: the status update and, with two or more confirmed users, the new
\* chat with its participants or the new participant of the existing chat, all
\* in one commit; chat_participants has the primary key (chat_id, user_id)
ConfirmCommit(p) ==
    /\ pc[p] = "confirm_commit"
    /\ LET u == req[p].user_id
           l == loc[p]
           create == l.confirmed_count >= 2 /\ l.existing_chat = {} /\ l.action_item # {}
           join == l.confirmed_count >= 2 /\ l.existing_chat # {}
           chat == NewChat(CHOOSE a \in l.action_item : TRUE, l.confirmation.initiator_id)
           existing_chat == CHOOSE c \in l.existing_chat : TRUE
           chat_id == IF create THEN chat.id ELSE IF join THEN existing_chat.id ELSE Null
           members == IF create
                      THEN NewChatParticipants(l.confirmation.initiator_id,
                                               l.confirmed_users, u)
                      ELSE IF join THEN {u} ELSE {}
           conflict == \E m \in members : m \in ParticipantsOf(chat_id)
       IN  IF conflict
           THEN /\ Finish(p, ErrorResp(500))
                /\ UNCHANGED goVars
           ELSE /\ action_item_confirmations' = RespondedRows(l.confirmation, "confirmed")
                /\ chats' = IF create THEN chats \cup {chat} ELSE chats
                /\ chat_participants' = chat_participants \cup
                       { ChatParticipant(chat_id, m) : m \in members }
                /\ Finish(p, ConfirmResp(l.confirmed_count, create, chat_id))
    /\ UNCHANGED <<interests, activities, action_items, friendships, chat_messages, now,
                   req, loc, hist>>

\* 1933-1948: the confirmation lookup and the checks of decline
DeclineBegin(p, item_id, u) ==
    /\ pc[p] = "idle"
    /\ req' = [req EXCEPT ![p] = [op |-> "decline", user_id |-> u,
                                  venue_id |-> NoSuchId, item_id |-> item_id]]
    /\ IF Cardinality(ConfirmationRows(item_id, u)) > 1
       THEN /\ Finish(p, ErrorResp(500))
            /\ UNCHANGED loc
       ELSE IF ConfirmationRows(item_id, u) = {}
       THEN /\ Finish(p, ErrorResp(404))
            /\ UNCHANGED loc
       ELSE LET confirmation == CHOOSE c \in ConfirmationRows(item_id, u) : TRUE
            IN  IF AlreadyResponded(confirmation.status)
                THEN /\ Finish(p, ErrorResp(400))
                     /\ UNCHANGED loc
                ELSE /\ loc' = [loc EXCEPT ![p] = GoLoc(confirmation, 0, {}, {}, {})]
                     /\ Goto(p, "decline_commit")
    /\ UNCHANGED <<dbVars, now, hist>>

\* 1950-1959: the status update and its commit
DeclineCommit(p) ==
    /\ pc[p] = "decline_commit"
    /\ action_item_confirmations' = RespondedRows(loc[p].confirmation, "declined")
    /\ Finish(p, OkResp("Interest declined"))
    /\ UNCHANGED <<interests, activities, action_items, friendships, chats,
                   chat_participants, chat_messages, now, req, loc, hist>>

(***************************************************************************)
(* Chats: create_chat, send_chat_message, get_chat_messages (main.py       *)
(* 2196-2381).  The database is SQLite without PRAGMA foreign_keys         *)
(* (database.py 40), so foreign keys are not enforced.                     *)
(***************************************************************************)
\* CreateChatRequest.action_item_id: Optional[str] = None (main.py 1583)
NoActionItem == <<>>

ChatById(chat_id) == { c \in chats : c.id = chat_id }

MessagesOf(chat_id) == { m \in chat_messages : m.chat_id = chat_id }

\* the users a list names
Range(s) == { s[i] : i \in 1..Len(s) }

\* POST /chats (main.py 2209-2251): the venue and the creator are looked up,
\* the participants are not; two entries for one user in participant_user_ids
\* violate the primary key (chat_id, user_id), and the exception leaves the handler
CreateChat(p, action_item_id, venue_id, created_by, participant_user_ids) ==
    /\ pc[p] = "idle"
    /\ Cardinality(chats) < MaxChats
    /\ req' = [req EXCEPT ![p] = [op |-> "create_chat", user_id |-> created_by,
                                  venue_id |-> venue_id, item_id |-> action_item_id,
                                  participant_user_ids |-> participant_user_ids]]
    /\ LET chat_id == <<"uuid", Cardinality(chats)>>
           chat == [id |-> chat_id, action_item_id |-> action_item_id,
                    venue_id |-> venue_id, created_by |-> created_by, created_at |-> now]
       IN  IF venue_id \notin Venues \/ created_by \notin Users
           THEN /\ Finish(p, ErrorResp(404))
                /\ UNCHANGED <<chats, chat_participants>>
           ELSE IF Cardinality(Range(participant_user_ids)) # Len(participant_user_ids)
           THEN /\ Finish(p, ErrorResp(500))
                /\ UNCHANGED <<chats, chat_participants>>
           ELSE /\ chats' = chats \cup {chat}
                /\ chat_participants' = chat_participants \cup
                       { ChatParticipant(chat_id, u) : u \in Range(participant_user_ids) }
                /\ Finish(p, [OkResp("chat created") EXCEPT
                                 !.count = Len(participant_user_ids), !.data = chat_id])
    /\ UNCHANGED <<interests, activities, action_items, friendships,
                   action_item_confirmations, chat_messages, now, loc, hist>>

\* The participant check of send_chat_message as it would be without it.
NotParticipant_never(chat_id, sender_id) == FALSE

\* 2339-2351: the query for the sender's participant row; none: 403
NotParticipant(chat_id, sender_id) == sender_id \notin ParticipantsOf(chat_id)

\* 2354-2362: ChatMessageDB(id=str(uuid.uuid4()), ...); messages are never deleted
NewMessage(chat_id, sender_id) ==
    [id |-> <<"uuid", Cardinality(chat_messages)>>, chat_id |-> chat_id,
     sender_id |-> sender_id, created_at |-> now]

\* POST /chats/{chat_id}/messages (main.py 2333-2381); at most MaxMessages
\* messages are stored
SendMessage(p, chat_id, sender_id) ==
    /\ pc[p] = "idle"
    /\ req' = [req EXCEPT ![p] = [op |-> "send", user_id |-> sender_id,
                                  venue_id |-> NoSuchId, item_id |-> chat_id]]
    /\ IF ChatById(chat_id) = {}
       THEN /\ Finish(p, ErrorResp(404))
            /\ UNCHANGED chat_messages
       ELSE IF NotParticipant(chat_id, sender_id)
       THEN /\ Finish(p, ErrorResp(403))
            /\ UNCHANGED chat_messages
       ELSE /\ Cardinality(chat_messages) < MaxMessages
            /\ chat_messages' = chat_messages \cup {NewMessage(chat_id, sender_id)}
            /\ Finish(p, [OkResp("sent") EXCEPT !.data = NewMessage(chat_id, sender_id).id])
    /\ UNCHANGED <<interests, activities, action_items, friendships,
                   action_item_confirmations, chats, chat_participants, now, loc, hist>>

\* SQLite: a negative OFFSET counts as 0, a negative LIMIT as no limit
sqlite_offset(offset) == IF offset < 0 THEN 0 ELSE offset

sqlite_limit(limit, rows) == IF limit < 0 THEN rows ELSE limit

\* 2279: .order_by(ChatMessageDB.created_at.desc()): a row comes behind the
\* rows with a later created_at (rows of one created_at come in an order the
\* database chooses; the messages listed here have distinct ones)
order_by_created_at_desc(msgs) ==
    LET later == [m \in msgs |-> Cardinality({ x \in msgs : x.created_at > m.created_at })]
    IN  [pos \in 1..Cardinality(msgs) |-> CHOOSE m \in msgs : later[m] = pos - 1]

\* 2280-2281: .offset(offset).limit(limit)
limited_rows(ordered, offset, limit) ==
    SubSeq(ordered, sqlite_offset(offset) + 1,
           Min(Len(ordered), sqlite_offset(offset) + sqlite_limit(limit, Len(ordered))))

\* 2274-2314: the page of the chat's messages and the response
get_chat_messages(chat_id, page, limit) ==
    LET offset == (page - 1) * limit
        messages_db == limited_rows(order_by_created_at_desc(MessagesOf(chat_id)),
                                    offset, limit)
        total_count == Cardinality(MessagesOf(chat_id))
    IN  [chat_id |-> chat_id,
         messages |-> [k \in 1..Len(messages_db) |-> messages_db[k].id],
         page |-> page, limit |-> limit, total_count |-> total_count,
         has_more |-> offset + Len(messages_db) < total_count]

\* GET /chats/{chat_id}/messages (main.py 2269-2314)
GetChatMessages(p, chat_id, page, limit) ==
    /\ pc[p] = "idle"
    /\ req' = [req EXCEPT ![p] = [op |-> "list", user_id |-> NoSuchId, venue_id |-> NoSuchId,
                                  item_id |-> chat_id, page |-> page, limit |-> limit]]
    /\ IF ChatById(chat_id) = {}
       THEN Finish(p, ErrorResp(404))
       ELSE Finish(p, [OkResp("messages") EXCEPT !.data = get_chat_messages(chat_id, page, limit)])
    /\ UNCHANGED <<dbVars, now, loc, hist>>

(***************************************************************************)
(* Recommendations.  The code computes the score in floating point, as a   *)
(* sum of multiples of 1/3, 1/2 and 1/5; here scores are integers counting *)
(* sixtieths of a point, and distances are tenths of a kilometre.          *)
(***************************************************************************)
s_bars == <<"b", "a", "r", "s">>
s_coffee == <<"c", "o", "f", "f", "e", "e">>
s_culture == <<"c", "u", "l", "t", "u", "r", "e">>
s_entertainment == <<"e", "n", "t", "e", "r", "t", "a", "i", "n", "m", "e", "n", "t">>
s_food == <<"f", "o", "o", "d">>
s_museums == <<"m", "u", "s", "e", "u", "m", "s">>
s_nightlife == <<"n", "i", "g", "h", "t", "l", "i", "f", "e">>
s_parks == <<"p", "a", "r", "k", "s">>
s_restaurants == <<"r", "e", "s", "t", "a", "u", "r", "a", "n", "t", "s">>

\* user_interests.interest_category of the seeded user_1 .. user_6
UserInterests(u) ==
    CASE u = 1 -> <<s_coffee, s_food, s_culture>>
      [] u = 2 -> <<s_food, s_restaurants, s_bars>>
      [] u = 3 -> <<s_bars, s_nightlife, s_entertainment>>
      [] u = 4 -> <<s_culture, s_museums, s_entertainment>>
      [] u = 5 -> <<s_bars, s_nightlife, s_food>>
      [] OTHER -> <<s_food, s_coffee, s_parks>>

\* utils/distance.py haversine_distance (the result is rounded to one decimal)
\* on the seeded coordinates of user_1 .. user_6 and of the three venues
haversine_distance(u, v) ==
    LET row == CASE u = 1 -> <<66, 7, 21>>
                 [] u = 2 -> <<31, 39, 55>>
                 [] u = 3 -> <<62, 16, 29>>
                 [] u = 4 -> <<70, 0, 16>>
                 [] u = 5 -> <<35, 39, 54>>
                 [] OTHER -> <<48, 23, 38>>
    IN  row[Min(v, 3)]

\* The tiers as they would be with exclusive upper boundaries.
calculate_proximity_score_exclusive(distance_km) ==
    IF distance_km < 100 THEN 10
    ELSE IF distance_km < 300 THEN 8
    ELSE IF distance_km < 500 THEN 6
    ELSE IF distance_km < 800 THEN 4
    ELSE 2

\* utils/distance.py calculate_proximity_score: the distance in hundredths of
\* a kilometre, the result in tenths
calculate_proximity_score(distance_km) ==
    IF distance_km <= 100 THEN 10
    ELSE IF distance_km <= 300 THEN 8
    ELSE IF distance_km <= 500 THEN 6
    ELSE IF distance_km <= 800 THEN 4
    ELSE 2

\* main.py get_interested_count
get_interested_count(venue_id) ==
    Cardinality({ i \in interests : i.venue_id = venue_id })

\* the count as it would be if it did not leave the requesting user out
all_users_interested(user_id, venue_id) ==
    Cardinality({ i \in interests : i.venue_id = venue_id })

\* 481-491: InterestDB.venue_id == venue_id and InterestDB.user_id != user_id
other_users_interested(user_id, venue_id) ==
    Cardinality({ i \in interests : i.venue_id = venue_id /\ i.user_id # user_id })

\* main.py count_friends_interested: the friendships are read in both directions
friend_ids(user_id) ==
    { f.friend_id : f \in { g \in friendships : g.user_id = user_id } } \cup
    { f.user_id : f \in { g \in friendships : g.friend_id = user_id /\ g.user_id # user_id } }

count_friends_interested(user_id, venue_id) ==
    Cardinality({ i \in interests : i.venue_id = venue_id /\ i.user_id \in friend_ids(user_id) })

\* 506-514: an interest matches when it is part of the category or the
\* category part of it, case ignored
category_match(user_id, venue_id) ==
    LET user_interests == UserInterests(user_id)
        venue_category_lower == lower(VenueCategory(venue_id))
    IN  \E k \in 1..Len(user_interests) :
            \/ IsSubstring(lower(user_interests[k]), venue_category_lower)
            \/ IsSubstring(venue_category_lower, lower(user_interests[k]))

\* The popularity term as it would be without the cap of min(..., 1.0).
popularity_score_uncapped(other_users) == other_users * 20 * 3

\* 495-496: min(other_users_interested / 3, 1.0) * 3.0
popularity_score(other_users) == Min(other_users * 20, 60) * 3

\* 515: category_match * 2.5
category_score(match) == IF match THEN 150 ELSE 0

\* 519-520: min(friends_interested / 3, 1.0) * 2.5
friend_score(friends_interested) == (Min(friends_interested * 20, 60) * 5) \div 2

\* 524-525: calculate_proximity_score(distance_km) * 2.0, the distance in
\* hundredths of a kilometre
proximity_score(distance_km) == calculate_proximity_score(distance_km) * 6 * 2

\* 472-526: score = 0.0, then the four terms added
score_sum(other_users, match, friends_interested, distance_km) ==
    popularity_score(other_users) + category_score(match)
        + friend_score(friends_interested) + proximity_score(distance_km)

\* main.py calculate_recommendation_score (for an existing user and venue)
calculate_recommendation_score(user_id, venue_id) ==
    LET distance_km == haversine_distance(user_id, venue_id)
        friends_interested == count_friends_interested(user_id, venue_id)
    IN  [score |-> score_sum(other_users_interested(user_id, venue_id),
                             category_match(user_id, venue_id),
                             friends_interested, distance_km * 10),
         friends_interested |-> friends_interested,
         total_interested |-> get_interested_count(venue_id),
         distance_km |-> distance_km]

\* Python's round(score, 1): the nearest tenth, a half going to the even one
round1(score) ==
    LET q == score \div 6
        r == score % 6
    IN  IF r < 3 THEN q
        ELSE IF r > 3 THEN q + 1
        ELSE IF q % 2 = 0 THEN q ELSE q + 1

\* The sort key as it would be if interested venues were to be listed last.
sort_key_with_flag(x) == (IF x.already_interested THEN 1000 ELSE 0) - x.score

\* 1125: key=lambda x: -x["score"]
sort_key(x) == 0 - x.score

\* 1125: list.sort orders by ascending key and is stable: an element comes
\* behind those of a smaller key and those of its own key that preceded it
list_sort(s) ==
    LET rank(k) ==
            Cardinality({ j \in 1..Len(s) :
                            \/ sort_key(s[j]) < sort_key(s[k])
                            \/ sort_key(s[j]) = sort_key(s[k]) /\ j < k }) + 1
    IN  [pos \in 1..Len(s) |-> s[CHOOSE k \in 1..Len(s) : rank(k) = pos]]

\* 1079-1080: select(VenueDB): the venues in the order of the table
VenueRows == [k \in 1..NumVenues |-> k]

\* 1082-1122: one entry per venue
recommendation_entries(user_id) ==
    LET user_interested_venue_ids ==
            { i.venue_id : i \in { j \in interests : j.user_id = user_id } }
        entry(venue_id) ==
            LET s == calculate_recommendation_score(user_id, venue_id)
            IN  [venue_id |-> venue_id,
                 score |-> round1(s.score),
                 already_interested |-> venue_id \in user_interested_venue_ids,
                 friends_interested |-> s.friends_interested,
                 total_interested |-> s.total_interested]
    IN  [k \in 1..Len(VenueRows) |-> entry(VenueRows[k])]

\* 1124-1129: the entries, sorted
get_recommendations(user_id) == list_sort(recommendation_entries(user_id))

\* GET /recommendations (main.py 1046-1129)
GetRecommendations(p, u) ==
    /\ pc[p] = "idle"
    /\ req' = [req EXCEPT ![p] = [op |-> "recommendations", user_id |-> u,
                                  venue_id |-> NoSuchId, item_id |-> <<>>]]
    /\ IF u \notin Users
       THEN Finish(p, ErrorResp(404))
       ELSE Finish(p, [OkResp("recommendations") EXCEPT !.data = get_recommendations(u)])
    /\ UNCHANGED <<dbVars, now, loc, hist>>

(***************************************************************************)
(* GET /social/feed: get_social_feed (main.py 1246-1394) and               *)
(* calculate_highlighted_venues (main.py 1397-1481).                       *)
(***************************************************************************)
\* datetime.isoformat(): the fields of the timestamp as zero-padded digits,
\* the most significant first (two digits carry the clock values used here)
isoformat(t) == <<t \div 10, t % 10>>

\* Python's str "<": the first differing character decides, a proper prefix
\* is smaller
str_less(a, b) ==
    \/ \E k \in 1..Min(Len(a), Len(b)) :
          /\ a[k] < b[k]
          /\ \A j \in 1..(k - 1) : a[j] = b[j]
    \/ /\ Len(a) < Len(b)
       /\ \A j \in 1..Len(a) : a[j] = b[j]

\* 1276-1279: page < 1 becomes 1, a limit outside 1..100 becomes 20
feed_page(page) == IF page < 1 THEN 1 ELSE page

feed_limit(limit) == IF limit < 1 \/ limit > 100 THEN 20 ELSE limit

\* 1322-1334: the activities of the friends with action "interested", after
\* `since` when one was given
feed_query_any_user(ids, since) ==
    { a \in activities : /\ a.action = "interested"
                         /\ since # Null => a.created_at > since }

feed_query(ids, since) ==
    { a \in activities : /\ a.user_id \in ids
                         /\ a.action = "interested"
                         /\ since # Null => a.created_at > since }

\* 1359-1377: one entry of interest_activities
feed_entry(activity) ==
    [id |-> activity.id, user_id |-> activity.user_id,
     venue_id |-> activity.venue_id, action |-> activity.action,
     timestamp |-> isoformat(activity.created_at)]

\* the rows of a query on the primary key (user_id, venue_id) of interests
\* come by user_id: the users of a set, ascending
users_ascending(S) ==
    [k \in 1..Cardinality(S) |-> CHOOSE x \in S : Cardinality({ y \in S : y < x }) = k - 1]

\* 1416-1421: the interests of the friends
friend_interests(ids) == { i \in interests : i.user_id \in ids }

\* 1424-1447: data["friends"] of a venue, one entry per interest row of a
\* friend (the user of an interest row exists: the handler that writes the
\* row looks the user up first and no handler deletes a user)
venue_friends(ids, venue_id) ==
    LET rows == { i \in friend_interests(ids) : i.venue_id = venue_id }
        us == users_ascending({ i.user_id : i \in rows })
    IN  [k \in 1..Len(us) |->
            LET interest == CHOOSE i \in rows : i.user_id = us[k]
            IN  [id |-> interest.user_id,
                 interested_timestamp |-> isoformat(interest.created_at)]]

\* 1453: friend_count >= threshold
reaches_threshold_more_than(friend_count, threshold) == friend_count > threshold

reaches_threshold(friend_count, threshold) == friend_count >= threshold

\* 1474: data["friends"][:10]
display_friends(friends) == SubSeq(friends, 1, Min(10, Len(friends)))

\* 1455-1476: the entry of a venue that reaches the threshold
highlighted_entry(ids, venue_id, threshold) ==
    LET rows == { i \in friend_interests(ids) : i.venue_id = venue_id }
        last_activity == CHOOSE t \in { i.created_at : i \in rows } :
                             \A i \in rows : i.created_at <= t
    IN  [venue_id |-> venue_id,
         interested_friends |-> display_friends(venue_friends(ids, venue_id)),
         total_interested_count |-> Cardinality({ i \in interests : i.venue_id = venue_id }),
         threshold |-> threshold,
         last_activity_timestamp |-> isoformat(last_activity)]

\* 1450-1453: the venues of venue_friends that reach the threshold, in the
\* order of the dict: by the first interest row of each venue
highlighted_unsorted(ids, threshold) ==
    LET vs == { v \in { i.venue_id : i \in friend_interests(ids) } :
                  reaches_threshold(Len(venue_friends(ids, v)), threshold) }
        first_row(v) == venue_friends(ids, v)[1].id
        before(a, b) == \/ first_row(a) < first_row(b)
                        \/ first_row(a) = first_row(b) /\ a < b
        ordered == [k \in 1..Cardinality(vs) |->
                       CHOOSE v \in vs : Cardinality({ w \in vs : before(w, v) }) = k - 1]
    IN  [k \in 1..Len(ordered) |-> highlighted_entry(ids, ordered[k], threshold)]

\* 1479: highlighted_venues.sort(key=last_activity_timestamp, reverse=True):
\* the larger string first, entries of one key in the order they had
sort_by_last_activity_reverse(l) ==
    LET key(k) == l[k].last_activity_timestamp
        ahead(k) == Cardinality({ j \in 1..Len(l) :
                        \/ str_less(key(k), key(j))
                        \/ key(j) = key(k) /\ j < k })
    IN  [pos \in 1..Len(l) |-> l[CHOOSE k \in 1..Len(l) : ahead(k) = pos - 1]]

\* 1397-1481
calculate_highlighted_venues(user_id, ids, threshold) ==
    sort_by_last_activity_reverse(highlighted_unsorted(ids, threshold))

\* 1291-1394: the response of the feed
get_social_feed(user_id, page0, limit0, since) ==
    LET page == feed_page(page0)
        limit == feed_limit(limit0)
        ids == friend_ids(user_id)
        rows == feed_query(ids, since)
        total_count == Cardinality(rows)
        offset == (page - 1) * limit
        activities_db == limited_rows(order_by_created_at_desc(rows), offset, limit)
    IN  IF ids = {}
        THEN [interest_activities |-> <<>>, highlighted_venues |-> <<>>,
              has_more |-> FALSE, page |-> page, limit |-> limit,
              total_count |-> 0, new_count |-> 0]
        ELSE [interest_activities |->
                  [k \in 1..Len(activities_db) |-> feed_entry(activities_db[k])],
              highlighted_venues |->
                  calculate_highlighted_venues(user_id, ids, HighlightThreshold),
              has_more |-> offset + Len(activities_db) < total_count,
              page |-> page, limit |-> limit,
              total_count |-> total_count,
              new_count |-> IF since # Null THEN total_count ELSE 0]

\* GET /social/feed (main.py 1246-1394)
GetSocialFeed(p, u, page, limit, since) ==
    /\ pc[p] = "idle"
    /\ req' = [req EXCEPT ![p] = [op |-> "feed", user_id |-> u, venue_id |-> NoSuchId,
                                  item_id |-> <<>>, page |-> page, limit |-> limit,
                                  since |-> since]]
    /\ Finish(p, [OkResp("feed") EXCEPT !.data = get_social_feed(u, page, limit, since)])
    /\ UNCHANGED <<dbVars, now, loc, hist>>

(***************************************************************************)
(* Initial database.  seed_data.py seeds interests with one activity each, *)
(* friendships between all user pairs, and no action item; a database      *)
(* carried over by migrate_action_items.py holds the action items the      *)
(* earlier version created, at most one open item per venue.               *)
(***************************************************************************)
SeedFriendships ==
    { r \in [user_id : Users, friend_id : Users] : r.user_id < r.friend_id }

\* who is seeded as interested in the first venue
SeedChoices == { 1..2, 1..(Threshold - 1) }

\* the action items carried over: none, or one of the first venue that
\* expires at the last instant of the model's time
MigratedChoices == { {}, {MigratedItem(1, 1..Threshold, MaxClock)} }

\* history variable: the rows at the start, and whether an agent step ran
\* while another request of the same venue was between its reads and its own
\* agent step
InitHist ==
    hist = [interests0 |-> interests, activities0 |-> activities, overlap |-> FALSE]

\* no "Go Ahead" flow has started and there is no chat
InitGoEmpty ==
    /\ action_item_confirmations = {}
    /\ chats = {}
    /\ chat_participants = {}
    /\ chat_messages = {}

InitProcs ==
    /\ pc = [p \in Procs |-> "idle"]
    /\ req = [p \in Procs |-> NoReq]
    /\ loc = [p \in Procs |-> NoLoc]
    /\ resp = [p \in Procs |-> NoResp]

Init ==
    /\ \E S \in SeedChoices :
          /\ interests = { SeedInterest(u, 1) : u \in S }
          /\ activities = { SeedActivity(u, 1) : u \in S }
    /\ action_items \in MigratedChoices
    /\ friendships = SeedFriendships
    /\ InitGoEmpty
    /\ now = 1
    /\ InitProcs
    /\ InitHist

\* the ids a request may name: every stored item's, and one of no item
ItemIds == { a.id : a \in action_items } \cup { <<"uuid", NoSuchId>> }

\* the callers of the lifecycle endpoints: a user of the item, the last user,
\* and an id that is no user's (these endpoints do not look the user up)
Callers == {1, NumUsers, NoSuchId}

(***************************************************************************)
(* Spec: requests handled one at a time (a single request slot), on the    *)
(* first venue.                                                            *)
(***************************************************************************)
Handlers(p, U, V, C) ==
    \/ \E u \in U, v \in V : ToggleBegin(p, u, v)
    \/ ToggleOffSelect(p)
    \/ ToggleOffCommit(p)
    \/ ToggleOnCommit(p)
    \/ ToggleOnRead(p)
    \/ ToggleOnCheck(p)
    \/ \E r1 \in RandInts, r2 \in RandInts : ToggleOnAgent(p, r1, r2)
    \/ \E id \in ItemIds, u \in C : CompleteActionItem(p, id, u)
    \/ \E id \in ItemIds, u \in C : DismissActionItem(p, id, u)
    \/ \E id \in ItemIds, u \in C : DismissActionItemPut(p, id, u)
    \/ ExpireActionItems(p)
    \/ Return(p)

\* the users who toggle in Spec: all but the first two, and an unknown id
Togglers == (Users \ (1..2)) \cup {NoSuchId}

Next ==
    \/ Handlers(1, Togglers, {1}, Callers)
    \/ Tick

Spec == Init /\ [][Next]_vars

(***************************************************************************)
(* SpecConc: every request slot handles one toggle of the first venue, and *)
(* the steps of the slots interleave (the handlers are coroutines that     *)
(* yield at every awaited database call; nothing in express_interest locks *)
(* or retries).  The requests overlap within one second of the clock, the  *)
(* resolution of the activity ids.                                         *)
(***************************************************************************)
\* who is seeded as interested in the first venue in SpecConc
ConcSeedChoices == { 1..(Threshold - 2), 1..(Threshold - 1) }

\* the users who toggle in SpecConc: the two after the seeded ones
ConcTogglers == { Threshold - 1, Threshold }

InitConc ==
    /\ \E S \in ConcSeedChoices :
          /\ interests = { SeedInterest(u, 1) : u \in S }
          /\ activities = { SeedActivity(u, 1) : u \in S }
    /\ action_items \in MigratedChoices
    /\ friendships = SeedFriendships
    /\ InitGoEmpty
    /\ now = 1
    /\ InitProcs
    /\ InitHist

\* the requests take the slots in the order of their arrival
ConcBegin(p, u) ==
    /\ IF p = 1 THEN TRUE ELSE pc[p - 1] # "idle"
    /\ ToggleBegin(p, u, 1)

NextConc ==
    \/ \E p \in Procs :
          \/ \E u \in ConcTogglers : ConcBegin(p, u)
          \/ ToggleOffSelect(p)
          \/ ToggleOffCommit(p)
          \/ ToggleOnCommit(p)
          \/ ToggleOnRead(p)
          \/ ToggleOnCheck(p)
          \/ \E r1 \in RandInts, r2 \in RandInts : ToggleOnAgent(p, r1, r2)

SpecConc == InitConc /\ [][NextConc]_vars

(***************************************************************************)
(* SpecTwice: slot 1 handles a toggle, and when it has answered, slot 2    *)
(* handles a toggle of the same user and venue.                            *)
(***************************************************************************)
\* the second call: the request of the first, once the first has answered
ToggleAgain ==
    /\ pc[1] = "done"
    /\ ToggleBegin(2, req[1].user_id, req[1].venue_id)

NextTwice ==
    \/ \E u \in Users \cup {NoSuchId}, v \in Venues : ToggleBegin(1, u, v)
    \/ ToggleAgain
    \/ \E p \in {1, 2} :
          \/ ToggleOffSelect(p)
          \/ ToggleOffCommit(p)
          \/ ToggleOnCommit(p)
          \/ ToggleOnRead(p)
          \/ ToggleOnCheck(p)
          \/ \E r1 \in RandInts, r2 \in RandInts : ToggleOnAgent(p, r1, r2)
    \/ Tick

SpecTwice == Init /\ [][NextTwice]_vars

(***************************************************************************)
(* SpecRec: toggles of the first users on every venue and recommendation   *)
(* requests, one request at a time.                                        *)
(***************************************************************************)
\* the users who toggle and ask for recommendations in SpecRec
RecUsers == 1..NumRecUsers

\* who is seeded as interested in the first venue in SpecRec
RecSeedChoices == { {}, Users \ RecUsers }

\* the friendships: those of seed_data.py (every pair), or only the pairs of
\* neighbours
FriendshipChoices ==
    { SeedFriendships, { r \in SeedFriendships : r.friend_id = r.user_id + 1 } }

InitRec ==
    /\ \E S \in RecSeedChoices :
          /\ interests = { SeedInterest(u, 1) : u \in S }
          /\ activities = { SeedActivity(u, 1) : u \in S }
    /\ action_items = {}
    /\ friendships \in FriendshipChoices
    /\ InitGoEmpty
    /\ now = 1
    /\ InitProcs
    /\ InitHist

NextRec ==
    \/ \E u \in RecUsers, v \in Venues : ToggleBegin(1, u, v)
    \/ ToggleOffSelect(1)
    \/ ToggleOffCommit(1)
    \/ ToggleOnCommit(1)
    \/ ToggleOnRead(1)
    \/ ToggleOnCheck(1)
    \/ \E r1 \in RandInts, r2 \in RandInts : ToggleOnAgent(1, r1, r2)
    \/ \E u \in RecUsers \cup {NoSuchId} : GetRecommendations(1, u)
    \/ Return(1)

SpecRec == InitRec /\ [][NextRec]_vars

(***************************************************************************)
(* SpecScore: the score arithmetic on its own.  The request of slot 1      *)
(* holds the inputs (the two counts, the category match, the distance in   *)
(* hundredths of a kilometre), the step computes the terms from them.      *)
(***************************************************************************)
ScoreInputs ==
    [op : {"score"}, other_users : 0..MaxCount, match : BOOLEAN,
     friends_interested : 0..MaxCount, distance_km : 0..MaxDistance]

InitScore ==
    /\ interests = {}
    /\ activities = {}
    /\ action_items = {}
    /\ friendships = {}
    /\ InitGoEmpty
    /\ now = 1
    /\ pc = [p \in Procs |-> "idle"]
    /\ \E i \in ScoreInputs : req = [p \in Procs |-> IF p = 1 THEN i ELSE NoReq]
    /\ loc = [p \in Procs |-> NoLoc]
    /\ resp = [p \in Procs |-> NoResp]
    /\ InitHist

ComputeScore ==
    /\ pc[1] = "idle"
    /\ req[1].op = "score"
    /\ Finish(1, [OkResp("score") EXCEPT !.data =
                     [score |-> score_sum(req[1].other_users, req[1].match,
                                          req[1].friends_interested, req[1].distance_km),
                      proximity |-> calculate_proximity_score(req[1].distance_km)]])
    /\ UNCHANGED <<dbVars, now, req, loc, hist>>

NextScore == ComputeScore

SpecScore == InitScore /\ [][NextScore]_vars

(***************************************************************************)
(* Properties of Spec.                                                     *)
(***************************************************************************)
\* a request slot whose toggle-on has committed its interest and activity
AfterInterestCommit(p) == pc[p] \in {"on_read", "on_check", "on_agent"}

\* the step of slot p that ends a toggle-on: the agent step
EndsToggleOn(p) == pc[p] = "on_agent" /\ pc'[p] = "done"

\* C1: in every state reached by toggles, completes, dismisses and expire
\* sweeps handled one at a time, each venue has at most one action item with
\* status active.
C1_AtMostOneActivePerVenue ==
    \A v \in Venues : Cardinality(ActiveItems(v)) <= 1

\* a toggle-on has just ended for a venue that has an active item and at
\* least Threshold interested users
C1_Witness ==
    /\ pc[1] = "done" /\ req[1].op = "toggle" /\ resp[1].code = 200
    /\ ~loc[1].existing_interest
    /\ Cardinality(InterestedUsers(req[1].venue_id)) >= Threshold
    /\ Cardinality(ActiveItems(req[1].venue_id)) = 1

\* C2: a toggle-on creates a new action item if and only if, with the interest
\* recorded, at least Threshold users are interested in the venue and the
\* venue has no active action item; the created item is active, has
\* threshold_met set and holds the venue's interested users.
C2_CreatesIffThresholdAndNoActive ==
    [][\A p \in Procs : EndsToggleOn(p) =>
          LET v == req[p].venue_id
          IN  /\ (action_items' # action_items) <=>
                     (/\ Cardinality(InterestedUsers(v)) >= Threshold
                      /\ ActiveItems(v) = {})
              /\ \A a \in action_items' \ action_items :
                     /\ a.venue_id = v
                     /\ a.status = "active"
                     /\ a.threshold_met
                     /\ a.interested_user_ids = InterestedUsers(v)]_vars

\* C3: for a venue without action item, a toggle-on that leaves fewer than
\* Threshold interested users creates no action item, and the toggle-on of
\* the Threshold-th user creates exactly one, active, listing exactly those
\* users, and the response reports it with its id and action code.
C3_FifthUserCreatesItem ==
    [][\A p \in Procs :
          (EndsToggleOn(p) /\ ~\E a \in action_items : a.venue_id = req[p].venue_id) =>
          LET v == req[p].venue_id
              n == Cardinality(InterestedUsers(v))
          IN  /\ n < Threshold =>
                     (action_items' = action_items /\ resp'[p].action_item = {})
              /\ n = Threshold =>
                     \E a \in action_items' :
                        /\ action_items' = action_items \cup {a}
                        /\ a \notin action_items
                        /\ a.venue_id = v
                        /\ a.status = "active"
                        /\ a.interested_user_ids = InterestedUsers(v)
                        /\ Cardinality(a.interested_user_ids) = Threshold
                        /\ resp'[p].action_item =
                               { [action_item_created |-> TRUE,
                                  action_item_id |-> a.id,
                                  action_code |-> a.action_code,
                                  interested_user_ids |-> a.interested_user_ids] }]_vars

\* C5: once a toggle-on has committed its interest and activity rows, every
\* later step of the call leaves both rows stored, and the call ends with a
\* success response, whatever happens in the action-item step.
C5_InterestSurvivesActionItemStep ==
    [][\A p \in Procs : AfterInterestCommit(p) =>
          /\ InterestRows(req[p].user_id, req[p].venue_id)' # {}
          /\ ActivityRows(req[p].user_id, req[p].venue_id)' # {}
          /\ pc'[p] = "done" => (resp'[p].code = 200 /\ resp'[p].success)]_vars

\* a toggle-on whose action-item step failed has ended
C5_Witness ==
    /\ pc[1] = "done" /\ req[1].op = "toggle"
    /\ resp[1].log = "Action item agent error"
    /\ InterestRows(req[1].user_id, req[1].venue_id) # {}
    /\ ActivityRows(req[1].user_id, req[1].venue_id) # {}

(***************************************************************************)
(* Properties of SpecConc.                                                 *)
(***************************************************************************)
\* C4: when toggle-ons of different users for one venue interleave (each has
\* read the interested users and made the existing-item check before any of
\* them writes an action item) and cross the threshold together, no two
\* different active action items of one venue are stored.
C4_InterleavedCrossingOneActive ==
    \A a \in action_items, b \in action_items :
        (a.status = "active" /\ b.status = "active" /\ a.venue_id = b.venue_id) => a = b

\* two toggle-ons of different users have ended, each saw Threshold or more
\* interested users, and one ran its agent step while the other was at its own
C4_Witness ==
    /\ hist.overlap
    /\ \E p \in Procs, q \in Procs :
          /\ pc[p] = "done" /\ pc[q] = "done"
          /\ req[p].user_id # req[q].user_id
          /\ req[p].venue_id = req[q].venue_id
          /\ Cardinality(loc[p].interested_user_ids) >= Threshold
          /\ Cardinality(loc[q].interested_user_ids) >= Threshold
          /\ Cardinality(ActiveItems(req[p].venue_id)) <= 1

\* C7: in every reachable state, a (user, venue) pair has an interest row if
\* and only if it has exactly one 'interested' activity row.
C7_InterestIffOneActivity ==
    \A u \in Users, v \in Venues :
        (InterestRows(u, v) # {}) <=> (Cardinality(ActivityRows(u, v)) = 1)

Removed(p) == resp[p].log = "Interest removed"

\* C8: when two toggles of the same user and venue have both ended (and no
\* other request ran), both succeeded, one recorded and one removed the
\* interest, and the pair's rows are those a serial execution leaves: present
\* if and only if they were present at the start, never duplicated.
C8_SameUserTogglesSerialize ==
    \A p \in Procs, q \in Procs :
        ( /\ p # q
          /\ pc[p] = "done" /\ pc[q] = "done"
          /\ req[p].user_id = req[q].user_id
          /\ req[p].venue_id = req[q].venue_id
          /\ \A o \in Procs \ {p, q} : pc[o] = "idle" ) =>
        LET u == req[p].user_id
            v == req[p].venue_id
            before == \E i \in hist.interests0 : i.user_id = u /\ i.venue_id = v
        IN  /\ resp[p].code = 200 /\ resp[q].code = 200
            /\ Removed(p) # Removed(q)
            /\ (InterestRows(u, v) # {}) <=> before
            /\ Cardinality(InterestRows(u, v)) <= 1
            /\ Cardinality(ActivityRows(u, v)) = Cardinality(InterestRows(u, v))

(***************************************************************************)
(* Properties of SpecTwice.                                                *)
(***************************************************************************)
Pairs(rows) == { <<r.user_id, r.venue_id>> : r \in rows }

OtherRows(rows, u, v) == { r \in rows : ~(r.user_id = u /\ r.venue_id = v) }

\* C6 as stated: after two consecutive toggles of the same user and venue the
\* interest rows and the activity rows are exactly those before the two calls.
C6_DoubleToggleRestoresRows ==
    pc[2] = "done" =>
        (interests = hist.interests0 /\ activities = hist.activities0)

\* C6, amended: after two consecutive toggles of the same user and venue, the
\* rows of every other pair are exactly those before, the pairs that have an
\* interest row and those that have an activity row are those before, and if
\* the user was not interested at the start all rows are exactly those before
\* (a pair that was interested has its two rows re-created).
C6_DoubleToggleRestoresPairs ==
    pc[2] = "done" =>
        LET u == req[2].user_id
            v == req[2].venue_id
        IN  /\ OtherRows(interests, u, v) = OtherRows(hist.interests0, u, v)
            /\ OtherRows(activities, u, v) = OtherRows(hist.activities0, u, v)
            /\ Pairs(interests) = Pairs(hist.interests0)
            /\ Pairs(activities) = Pairs(hist.activities0)
            /\ Cardinality(ActivityRows(u, v)) = Cardinality(InterestRows(u, v))
            /\ Cardinality(InterestRows(u, v)) <= 1
            /\ <<u, v>> \notin Pairs(hist.interests0) =>
                   (interests = hist.interests0 /\ activities = hist.activities0)

\* both toggles of a pair that was interested at the start have succeeded:
\* the first removed the pair's rows and the second wrote new ones
C6_Witness ==
    /\ pc[2] = "done" /\ resp[1].code = 200 /\ resp[2].code = 200
    /\ loc[1].existing_interest /\ Removed(1)
    /\ ~loc[2].existing_interest
    /\ InterestRows(req[2].user_id, req[2].venue_id) # {}
    /\ interests # hist.interests0

(***************************************************************************)
(* Properties of SpecRec.                                                  *)
(***************************************************************************)
\* a step in which the toggle of slot p changes the interests
ToggleWrites(p) == req[p].op = "toggle" /\ interests' # interests

\* C9: the score of a venue as seen by a user is the same before and after
\* the user's own toggle (on or off) of that venue.
C9_OwnToggleKeepsScore ==
    [][\A p \in Procs : ToggleWrites(p) =>
          calculate_recommendation_score(req[p].user_id, req[p].venue_id)'.score =
              calculate_recommendation_score(req[p].user_id, req[p].venue_id).score]_vars

\* a user's toggle-on of a venue in which one or two others are interested
\* has ended
C9_Witness ==
    /\ pc[1] = "done" /\ req[1].op = "toggle" /\ resp[1].code = 200
    /\ InterestRows(req[1].user_id, req[1].venue_id) # {}
    /\ other_users_interested(req[1].user_id, req[1].venue_id) \in {1, 2}

\* the venues of a list, in its order
VenueOrder(data) == [k \in 1..Len(data) |-> data[k].venue_id]

\* C10: the list a recommendation request returns holds every venue once and
\* is ordered by non-increasing score, and a user's own toggle of any venue
\* leaves the order of the user's list unchanged.
C10_SortedByScoreOnly ==
    [][/\ \A p \in Procs :
            (req'[p].op = "recommendations" /\ resp'[p].code = 200) =>
            LET data == resp'[p].data
            IN  /\ Len(data) = NumVenues
                /\ { data[k].venue_id : k \in 1..Len(data) } = Venues
                /\ \A k \in 1..(Len(data) - 1) : data[k].score >= data[k + 1].score
       /\ \A p \in Procs : ToggleWrites(p) =>
            \A before \in {get_recommendations(req[p].user_id)},
               after \in {recommendation_entries(req[p].user_id)'} :
                VenueOrder(list_sort(after)) = VenueOrder(before)]_vars

\* a recommendation request has answered a user who is interested in a venue
\* that is not the last of the list, and in no venue listed behind it
C10_Witness ==
    /\ pc[1] = "done" /\ req[1].op = "recommendations" /\ resp[1].code = 200
    /\ \E k \in 1..(Len(resp[1].data) - 1) :
          /\ resp[1].data[k].already_interested
          /\ ~resp[1].data[k + 1].already_interested

(***************************************************************************)
(* Properties of SpecScore.                                                *)
(***************************************************************************)
Scored == pc[1] = "done" /\ req[1].op = "score"

\* the step function of the distance in hundredths of a kilometre, in tenths
StepProximity(d) ==
    CASE d <= 100 -> 10
      [] d > 100 /\ d <= 300 -> 8
      [] d > 300 /\ d <= 500 -> 6
      [] d > 500 /\ d <= 800 -> 4
      [] d > 800 -> 2

\* C11: for all counts, either category match and any distance, the score is
\* min(other/3, 1)*3.0 + (2.5 if match) + min(friends/3, 1)*2.5 +
\* proximity*2.0, and lies between 0 and 10 (here in sixtieths of a point).
C11_ScoreFormulaAndRange ==
    Scored =>
        LET n == req[1].other_users
            f == req[1].friends_interested
        IN  /\ resp[1].data.score =
                   (IF n >= 3 THEN 180 ELSE 60 * n)
                   + (IF req[1].match THEN 150 ELSE 0)
                   + (IF f >= 3 THEN 150 ELSE 50 * f)
                   + StepProximity(req[1].distance_km) * 12
            /\ resp[1].data.score >= 0
            /\ resp[1].data.score <= 600

\* the score of more than three other users and friends, a category match and
\* a venue at the door: the full 10 points
C11_Witness ==
    /\ Scored
    /\ req[1].other_users > 3 /\ req[1].friends_interested > 3
    /\ req[1].match /\ req[1].distance_km = 0
    /\ resp[1].data.score = 600

\* C12: the proximity score is the step function with inclusive upper
\* boundaries (1.0 up to 1 km, 0.8 up to 3, 0.6 up to 5, 0.4 up to 8, else
\* 0.2), so 1.0 km gives 1.0 and 1.01 km gives 0.8, and it does not increase
\* with the distance.
C12_ProximitySteps ==
    Scored =>
        LET d == req[1].distance_km
        IN  /\ resp[1].data.proximity = StepProximity(d)
            /\ d = 100 => resp[1].data.proximity = 10
            /\ d = 101 => resp[1].data.proximity = 8
            /\ calculate_proximity_score(d + 1) <= resp[1].data.proximity

\* the proximity score of 1.01 km has been computed
C12_Witness ==
    /\ Scored
    /\ req[1].distance_km = 101
    /\ resp[1].data.proximity = 8

(***************************************************************************)
(* SpecGo: the "Go Ahead" flow on a migrated action item, requests handled *)
(* one at a time.  express_interest creates no action item (see C2), so    *)
(* the items are those of a migrated database: one whose users are all but *)
(* the last user, active or completed earlier.                             *)
(***************************************************************************)
GoItem == MigratedItem(1, 1..(NumUsers - 1), MaxClock)

GoItemChoices == { {GoItem}, {[GoItem EXCEPT !.status = "completed"]} }

\* the callers of initiate, confirm and decline: every user, and an unknown id
GoCallers == Users \cup {NoSuchId}

InitGo ==
    /\ interests = { SeedInterest(u, 1) : u \in GoItem.interested_user_ids }
    /\ activities = { SeedActivity(u, 1) : u \in GoItem.interested_user_ids }
    /\ action_items \in GoItemChoices
    /\ friendships = SeedFriendships
    /\ InitGoEmpty
    /\ now = 1
    /\ InitProcs
    /\ InitHist

GoHandlers(p, C) ==
    \/ \E id \in ItemIds, u \in C : InitiateBegin(p, id, u)
    \/ InitiateCommit(p)
    \/ \E id \in ItemIds, u \in C : ConfirmBegin(p, id, u)
    \/ ConfirmCommit(p)
    \/ \E id \in ItemIds, u \in C : DeclineBegin(p, id, u)
    \/ DeclineCommit(p)

NextGo ==
    \/ GoHandlers(1, GoCallers)
    \/ Return(1)

SpecGo == InitGo /\ [][NextGo]_vars

(***************************************************************************)
(* Properties of the "Go Ahead" flow.                                      *)
(***************************************************************************)
\* the first slot takes a request of the given operation in this step
Began(op) == pc[1] = "idle" /\ pc'[1] # "idle" /\ req'[1].op = op

\* the first slot's call has ended with the given status code
Ended(op, code) == pc[1] = "done" /\ req[1].op = op /\ resp[1].code = code

\* the cases in which initiate has to fail
InitiateMustFail(item_id, u) ==
    \/ ItemById(item_id) = {}
    \/ \E a \in ItemById(item_id) : a.status # "active" \/ u \notin a.interested_user_ids

\* C13: an initiate call on an action item that does not exist, is not active,
\* or does not list the caller among its interested users ends at once with an
\* error (404, 400 or 403), and no table changes: no confirmation row is created.
C13_InitiateFailsWithoutChange ==
    [][ (Began("initiate") /\ InitiateMustFail(req'[1].item_id, req'[1].user_id))
          => /\ pc'[1] = "done"
             /\ resp'[1].code \in {400, 403, 404}
             /\ ~resp'[1].success
             /\ UNCHANGED dbVars ]_vars

\* an initiate by an interested user on the completed item was rejected
C13_Witness ==
    /\ Ended("initiate", 400)
    /\ \E a \in ItemById(req[1].item_id) :
          a.status = "completed" /\ req[1].user_id \in a.interested_user_ids
    /\ action_item_confirmations = {}

\* the first slot's call of the given operation ends with success in this step
Succeeds(op) == pc[1] # "done" /\ pc'[1] = "done" /\ req'[1].op = op /\ resp'[1].code = 200

\* C14: when an initiate call succeeds on an action item that had no
\* confirmation row, the item afterwards has exactly one confirmation row for
\* every interested user other than the caller, each with status pending, no
\* responded_at and initiator_id = the caller, and no row for the caller.
C14_FirstInitiateCreatesPendingRows ==
    [][ (Succeeds("initiate") /\ ConfirmationsOf(req'[1].item_id) = {})
          => \A a \in ItemById(req'[1].item_id) :
             \A rows \in { { c \in action_item_confirmations' :
                               c.action_item_id = req'[1].item_id } } :
                /\ \A u \in a.interested_user_ids \ {req'[1].user_id} :
                      Cardinality({ c \in rows : c.user_id = u }) = 1
                /\ \A c \in rows : /\ c.user_id \in a.interested_user_ids
                                   /\ c.user_id # req'[1].user_id
                                   /\ c.status = "pending"
                                   /\ c.responded_at = Null
                                   /\ c.initiator_id = req'[1].user_id
                /\ action_item_confirmations \subseteq action_item_confirmations' ]_vars

\* the second user's initiate has created the pending rows of the others
C14_Witness ==
    /\ Ended("initiate", 200)
    /\ req[1].user_id = 2
    /\ { c.user_id : c \in ConfirmationsOf(req[1].item_id) } =
           GoItem.interested_user_ids \ {2}
    /\ \A c \in ConfirmationsOf(req[1].item_id) : c.status = "pending" /\ c.initiator_id = 2

\* C15: an initiate call by an interested user on an active action item that
\* already has confirmation rows (whoever initiated, whatever confirm and
\* decline calls came in between) ends at once with success, returns one
\* entry per existing row with the row's user, status and responded_at, and
\* changes no table: no row is created and no row is changed.
C15_InitiateIdempotent ==
    [][ (/\ Began("initiate")
         /\ ~InitiateMustFail(req'[1].item_id, req'[1].user_id)
         /\ ConfirmationsOf(req'[1].item_id) # {})
          => /\ pc'[1] = "done"
             /\ resp'[1].code = 200
             /\ resp'[1].data.confirmations =
                    { [user_id |-> c.user_id, status |-> c.status,
                       responded_at |-> c.responded_at] :
                      c \in ConfirmationsOf(req'[1].item_id) }
             /\ UNCHANGED dbVars ]_vars

\* a repeated initiate by a user other than the first initiator, after a
\* confirm and a decline, has returned the three kinds of rows
C15_Witness ==
    /\ Ended("initiate", 200)
    /\ \E c \in ConfirmationsOf(req[1].item_id) : c.initiator_id # req[1].user_id
    /\ { e.status : e \in resp[1].data.confirmations } = {"pending", "confirmed", "declined"}
    /\ Cardinality(resp[1].data.confirmations) = Cardinality(GoItem.interested_user_ids) - 1

(***************************************************************************)
(* SpecGoConc: up to NumProcs initiate, confirm and decline requests on    *)
(* the active migrated item, their steps interleaved: each request reads   *)
(* in one step and commits in a later one.                                 *)
(***************************************************************************)
\* the users who call: as many as there are slots, all of them users of the item
GoConcCallers == 1..NumProcs

InitGoConc ==
    /\ interests = { SeedInterest(u, 1) : u \in GoItem.interested_user_ids }
    /\ activities = { SeedActivity(u, 1) : u \in GoItem.interested_user_ids }
    /\ action_items = {GoItem}
    /\ friendships = SeedFriendships
    /\ InitGoEmpty
    /\ now = 1
    /\ InitProcs
    /\ InitHist

\* the requests take the slots in the order of their arrival
Arrives(p) == IF p = 1 THEN TRUE ELSE pc[p - 1] # "idle"

ConcInitiateBegin(p, u) == Arrives(p) /\ InitiateBegin(p, GoItem.id, u)

ConcConfirmBegin(p, u) == Arrives(p) /\ ConfirmBegin(p, GoItem.id, u)

ConcDeclineBegin(p, u) == Arrives(p) /\ DeclineBegin(p, GoItem.id, u)

NextGoConc ==
    \/ \E p \in Procs :
          \/ \E u \in GoConcCallers : ConcInitiateBegin(p, u)
          \/ InitiateCommit(p)
          \/ \E u \in GoConcCallers : ConcConfirmBegin(p, u)
          \/ ConfirmCommit(p)
          \/ \E u \in GoConcCallers : ConcDeclineBegin(p, u)
          \/ DeclineCommit(p)

SpecGoConc == InitGoConc /\ [][NextGoConc]_vars

\* C16: in every state, also after interleaved initiate calls of different
\* interested users, an action item has at most one confirmation row per user,
\* and no user recorded as initiator of an item has a confirmation row for it.
C16_OneRowPerUserNoInitiatorRow ==
    \A c \in action_item_confirmations :
       /\ \A d \in action_item_confirmations :
             (d.action_item_id = c.action_item_id /\ d.user_id = c.user_id) => d = c
       /\ ConfirmationRows(c.action_item_id, c.initiator_id) = {}

\* C17: a confirm or decline call of a user who has no confirmation row for
\* the action item ends at once with 404, and one whose row is not pending
\* (already confirmed or declined) ends at once with 400; in both cases no
\* table changes: the row's status and responded_at, chats and participants.
C17_ConfirmDeclineFailWithoutChange ==
    [][ \A op \in {"confirm", "decline"} :
          Began(op) =>
            \A rows \in { ConfirmationRows(req'[1].item_id, req'[1].user_id) } :
               /\ rows = {} => /\ pc'[1] = "done"
                               /\ resp'[1].code = 404
                               /\ ~resp'[1].success
                               /\ UNCHANGED dbVars
               /\ (\E c \in rows : c.status # "pending")
                     => /\ pc'[1] = "done"
                        /\ resp'[1].code = 400
                        /\ ~resp'[1].success
                        /\ UNCHANGED dbVars ]_vars

\* a decline of a user who had confirmed before was rejected: the row is
\* still confirmed and the user is still in the chat
C17_Witness ==
    /\ Ended("decline", 400)
    /\ \E c \in ConfirmationRows(req[1].item_id, req[1].user_id) : c.status = "confirmed"
    /\ \E chat \in ChatsOf(req[1].item_id) : req[1].user_id \in ParticipantsOf(chat.id)

\* C18: with the calls executed one at a time, an action item's chat is
\* created exactly once, by the step in which the item's first confirmation
\* becomes confirmed (initiator plus one confirmed user makes 2): that step
\* creates one chat of the item, and no other step (a later confirm, a
\* decline, an initiate) creates or removes a chat.
C18_ChatCreatedOnceByFirstConfirm ==
    [][ /\ \A id \in ItemIds :
              \A before \in { ChatsOf(id) } :
              \A after \in { { c \in chats' : c.action_item_id = id } } :
                 /\ before \subseteq after
                 /\ Cardinality(after) <= 1
                 /\ (after # before) <=>
                       /\ ConfirmedRows(id) = {}
                       /\ \E c \in action_item_confirmations' :
                             c.action_item_id = id /\ c.status = "confirmed"
        /\ \A c \in chats' \ chats :
              /\ c.action_item_id = req[1].item_id
              /\ req[1].op = "confirm"
              /\ c.action_item_id \in ItemIds ]_vars

\* a second user has confirmed after another's confirm and a decline, and
\* joined the one chat instead of creating one
C18_Witness ==
    /\ Ended("confirm", 200)
    /\ ~resp[1].data.chat_created
    /\ Cardinality(ConfirmedRows(req[1].item_id)) >= 2
    /\ \E c \in ConfirmationsOf(req[1].item_id) : c.status = "declined"
    /\ Cardinality(ChatsOf(req[1].item_id)) = 1

\* the slots whose confirm call has ended with success
ConfirmedSlots == { p \in Procs : pc[p] = "done" /\ req[p].op = "confirm" /\ resp[p].code = 200 }

\* the confirm calls made so far are of different users, and no decline call
\* and only one initiate call has been made
DistinctConfirmers ==
    /\ \A p \in Procs, q \in Procs :
          (p # q /\ req[p].op = "confirm" /\ req[q].op = "confirm")
             => req[p].user_id # req[q].user_id
    /\ \A p \in Procs : req[p].op # "decline"
    /\ Cardinality({ p \in Procs : req[p].op = "initiate" }) <= 1

\* C19: after one initiate, also when two confirm calls of different users on
\* one action item interleave (both look for an existing chat before either commits), the
\* item has at most one chat, and every user whose confirm succeeded is a
\* participant of it.
C19_InterleavedConfirmsOneChat ==
    DistinctConfirmers =>
       /\ Cardinality(ChatsOf(GoItem.id)) <= 1
       /\ \A p \in ConfirmedSlots :
             \A chat \in ChatsOf(GoItem.id) : req[p].user_id \in ParticipantsOf(chat.id)

\* the participants a chat of an action item has to have, given the tables:
\* the initiator recorded on the item's confirmation rows and the users whose
\* row is confirmed
ExpectedParticipants(confs, item_id) ==
    { c.initiator_id : c \in { d \in confs : d.action_item_id = item_id } } \cup
    { c.user_id : c \in { d \in confs : d.action_item_id = item_id /\ d.status = "confirmed" } }

\* every chat's participants are the expected ones, each stored once
ParticipantsOk(cs, parts, confs) ==
    \A chat \in cs :
       \A rows \in { { m \in parts : m.chat_id = chat.id } } :
          /\ { m.user_id : m \in rows } = ExpectedParticipants(confs, chat.action_item_id)
          /\ Cardinality(rows) = Cardinality({ m.user_id : m \in rows })

\* C20: with the calls executed one at a time, after every step the
\* participants of an action item's chat are the item's initiator and exactly
\* the users whose confirmation is confirmed, each once; the step that creates
\* the chat leaves it with the initiator and the confirming user, and every
\* later successful confirm adds the confirming user to that same chat.
C20_ParticipantsAreInitiatorAndConfirmed ==
    [][ \A cs \in {chats'}, parts \in {chat_participants'},
           confs \in {action_item_confirmations'} :
          /\ ParticipantsOk(cs, parts, confs)
          /\ \A chat \in cs \ chats :
                /\ { m.user_id : m \in { n \in parts : n.chat_id = chat.id } } =
                       {chat.created_by, req[1].user_id}
                /\ chat.created_by # req[1].user_id
                /\ { c.initiator_id : c \in ConfirmationsOf(chat.action_item_id) } =
                       {chat.created_by}
          /\ (Succeeds("confirm") /\ ChatsOf(req[1].item_id) # {})
                => /\ cs = chats
                   /\ parts \ chat_participants =
                         { m \in parts : /\ m.user_id = req[1].user_id
                                         /\ \E chat \in ChatsOf(req[1].item_id) :
                                               m.chat_id = chat.id }
                   /\ parts \ chat_participants # {} ]_vars

\* the chat holds the initiator and two confirmed users, and not the user who
\* declined nor the one who has not answered
C20_Witness ==
    \E chat \in chats :
       /\ Cardinality(ParticipantsOf(chat.id)) = 3
       /\ chat.created_by \in ParticipantsOf(chat.id)
       /\ \E c \in ConfirmationsOf(chat.action_item_id) :
             c.status = "declined" /\ c.user_id \notin ParticipantsOf(chat.id)
       /\ Cardinality(ConfirmedRows(chat.action_item_id)) = 2

\* C21: a decline call that succeeds changes the caller's confirmation row of
\* the action item, and nothing else: the row gets status declined and
\* responded_at = now, every other confirmation row, the chats, the chat
\* participants and the action items are as before.
C21_DeclineChangesOnlyOwnRow ==
    [][ Succeeds("decline") =>
          \A mine \in { ConfirmationRows(req'[1].item_id, req'[1].user_id) } :
             /\ Cardinality(mine) = 1
             /\ action_item_confirmations' =
                   (action_item_confirmations \ mine) \cup
                   { [c EXCEPT !.status = "declined", !.responded_at = now] : c \in mine }
             /\ \A c \in mine : c.status = "pending" /\ c.responded_at = Null
             /\ UNCHANGED <<chats, chat_participants, chat_messages, action_items,
                            interests, activities, friendships>> ]_vars

\* a decline has succeeded while the item has a chat and another user's row is
\* confirmed and a third user's row is pending
C21_Witness ==
    /\ Ended("decline", 200)
    /\ \E c \in ConfirmationRows(req[1].item_id, req[1].user_id) :
          c.status = "declined" /\ c.responded_at = now
    /\ ChatsOf(req[1].item_id) # {}
    /\ { c.status : c \in ConfirmationsOf(req[1].item_id) } =
           {"pending", "confirmed", "declined"}

(***************************************************************************)
(* Properties of the action-item lifecycle.                                *)
(***************************************************************************)
\* C22: once an action item's status is not active (dismissed, expired or
\* completed), no complete, dismiss, expire or toggle call changes the status
\* again; in particular the item never becomes active again.
C22_TerminalStatuses ==
    [][ \A a \in action_items :
          a.status # "active" =>
             \E b \in action_items' : b.id = a.id /\ b.status = a.status ]_vars

\* C23: in every state an action item has archived_at set exactly when its
\* status is not active.
C23_ArchivedIffNotActive ==
    \A a \in action_items : (a.archived_at # Null) <=> (a.status # "active")

\* the lifecycle operations a user calls on one action item
ItemOps == {"complete", "dismiss", "dismiss_put"}

\* C24: a complete or dismiss call (either dismiss endpoint) on an action item
\* that does not exist ends with 404, and one by a user who is not in the
\* item's interested_user_ids ends with 403; in both cases the action items
\* are unchanged (status, archived_at).  A call by a user of the item succeeds.
C24_CompleteDismissAuthorization ==
    [][ \A op \in ItemOps :
          Began(op) =>
            /\ pc'[1] = "done"
            /\ \A item \in { ItemById(req'[1].item_id) } :
                  /\ item = {} => /\ resp'[1].code = 404
                                  /\ UNCHANGED dbVars
                  /\ \A a \in item :
                        IF req'[1].user_id \in a.interested_user_ids
                        THEN /\ resp'[1].code = 200
                             /\ resp'[1].success
                        ELSE /\ resp'[1].code = 403
                             /\ UNCHANGED dbVars ]_vars

\* a complete call by a caller who is not a user of the stored item was
\* rejected as unauthorized, and the item is still active and not archived
C24_Witness ==
    /\ Ended("complete", 403)
    /\ \E a \in ItemById(req[1].item_id) :
          /\ req[1].user_id \notin a.interested_user_ids
          /\ a.status = "active"
          /\ a.archived_at = Null

\* C25: an expire sweep at time now gives exactly the action items that are
\* active with expires_at <= now the status expired and archived_at = now,
\* reports their number and leaves every other item and table unchanged;
\* after it no item is left for a sweep at the same time, so a second sweep
\* run immediately reports 0 and changes nothing.
C25_ExpireSweepExactAndIdempotent ==
    [][ Began("expire") =>
          \A due \in { { a \in action_items : a.status = "active" /\ a.expires_at <= now } } :
             /\ pc'[1] = "done"
             /\ resp'[1].code = 200
             /\ resp'[1].count = Cardinality(due)
             /\ action_items' = (action_items \ due) \cup
                   { [a EXCEPT !.status = "expired", !.archived_at = now] : a \in due }
             /\ UNCHANGED <<interests, activities, friendships, goVars, now>>
             /\ \A a \in action_items' : ~(a.status = "active" /\ a.expires_at <= now) ]_vars

\* a sweep has expired the one item that was due
C25_Witness ==
    /\ Ended("expire", 200)
    /\ resp[1].count = 1
    /\ \E a \in action_items : a.status = "expired" /\ a.archived_at = now /\ a.expires_at <= now

(***************************************************************************)
(* SpecSweep: up to NumProcs expire sweeps, complete and dismiss calls on  *)
(* the migrated item, interleaved: a sweep selects in one step and commits *)
(* in a later one.                                                         *)
(***************************************************************************)
InitSweep ==
    /\ interests = { SeedInterest(u, 1) : u \in GoItem.interested_user_ids }
    /\ activities = { SeedActivity(u, 1) : u \in GoItem.interested_user_ids }
    /\ action_items = {GoItem}
    /\ friendships = SeedFriendships
    /\ InitGoEmpty
    /\ now = 1
    /\ InitProcs
    /\ InitHist

SweepExpireBegin(p) == Arrives(p) /\ ExpireBegin(p)

SweepComplete(p) == Arrives(p) /\ CompleteActionItem(p, GoItem.id, 1)

SweepDismiss(p) == Arrives(p) /\ DismissActionItem(p, GoItem.id, 1)

SweepDismissPut(p) == Arrives(p) /\ DismissActionItemPut(p, GoItem.id, 1)

NextSweep ==
    \/ \E p \in Procs :
          \/ SweepExpireBegin(p)
          \/ ExpireCommit(p)
          \/ SweepComplete(p)
          \/ SweepDismiss(p)
          \/ SweepDismissPut(p)
    \/ Tick

SpecSweep == InitSweep /\ [][NextSweep]_vars

\* C26: also when an expire sweep interleaves with a dismiss or a complete on
\* the same item (the sweep selects the item before the other call commits
\* and writes afterwards), no step turns a committed dismissed or completed
\* status into expired: every serial order of a sweep and a dismiss ends with
\* dismissed, and of a sweep and a complete with completed.
C26_SweepKeepsCommittedStatus ==
    [][ \A a \in action_items :
          a.status \in {"dismissed", "completed"} =>
             \E b \in action_items' : b.id = a.id /\ b.status # "expired" ]_vars

(***************************************************************************)
(* SpecChat: chats created through POST /chats and messages sent to them,  *)
(* one request at a time, all at one instant.                              *)
(***************************************************************************)
\* the users named in chat requests: the first two, and the third as a sender
ChatUsers == 1..2

ParticipantLists ==
    {<<>>} \cup { <<u>> : u \in ChatUsers } \cup { <<u, w>> : u \in ChatUsers, w \in ChatUsers }

\* the chat ids a request may name: every stored chat's, and one of no chat
ChatIds == { c.id : c \in chats } \cup { <<"uuid", NoSuchId - 1>> }

InitChat ==
    /\ interests = {}
    /\ activities = {}
    /\ action_items = {}
    /\ friendships = SeedFriendships
    /\ InitGoEmpty
    /\ now = 1
    /\ InitProcs
    /\ InitHist

NextChat ==
    \/ \E venue_id \in {1, NoSuchId}, created_by \in {1, NoSuchId}, l \in ParticipantLists :
          CreateChat(1, NoActionItem, venue_id, created_by, l)
    \/ \E chat_id \in ChatIds, u \in ChatUsers \cup {3} : SendMessage(1, chat_id, u)
    \/ Return(1)

SpecChat == InitChat /\ [][NextChat]_vars

(***************************************************************************)
(* Properties of the chats.                                                *)
(***************************************************************************)
\* C27: a send call to a chat that does not exist ends with 404 and one by a
\* sender who is not a participant of the chat with 403, and neither stores a
\* message; after every step the sender of every stored message is a
\* participant of the message's chat, and every message stored before the
\* step is stored unchanged after it.
C27_OnlyParticipantsSendAppendOnly ==
    [][ /\ Began("send") =>
             \A chat_id \in {req'[1].item_id}, sender_id \in {req'[1].user_id} :
                /\ ChatById(chat_id) = {} =>
                      pc'[1] = "done" /\ resp'[1].code = 404 /\ UNCHANGED dbVars
                /\ (ChatById(chat_id) # {} /\ sender_id \notin ParticipantsOf(chat_id)) =>
                      pc'[1] = "done" /\ resp'[1].code = 403 /\ UNCHANGED dbVars
        /\ chat_messages \subseteq chat_messages'
        /\ \A m \in chat_messages' :
              \E n \in chat_participants' : n.chat_id = m.chat_id /\ n.user_id = m.sender_id ]_vars

\* a send by a user who is not in the chat was rejected, while the chat holds
\* a participant's message
C27_Witness ==
    /\ Ended("send", 403)
    /\ ChatById(req[1].item_id) # {}
    /\ req[1].user_id \notin ParticipantsOf(req[1].item_id)
    /\ MessagesOf(req[1].item_id) # {}

(***************************************************************************)
(* SpecList: one chat whose creator has sent a number of messages, each at *)
(* a later instant than the one before, and requests for its pages.        *)
(***************************************************************************)
\* how many messages the chat holds
StoredCounts == {0, 1, 3, MaxStored}

ListChat ==
    [id |-> <<"uuid", 0>>, action_item_id |-> Null, venue_id |-> 1, created_by |-> 1,
     created_at |-> 0]

\* the k-th message sent to the chat
StoredMessage(k) ==
    [id |-> <<"uuid", k - 1>>, chat_id |-> ListChat.id, sender_id |-> 1, created_at |-> k]

\* the pages and limits asked for
Pages == 0..3

Limits == {1, 2, 50, 100, MaxStored}

InitList ==
    /\ interests = {}
    /\ activities = {}
    /\ action_items = {}
    /\ friendships = SeedFriendships
    /\ action_item_confirmations = {}
    /\ chats = {ListChat}
    /\ chat_participants = {[chat_id |-> ListChat.id, user_id |-> 1, joined_at |-> 0]}
    /\ \E n \in StoredCounts :
          /\ chat_messages = { StoredMessage(k) : k \in 1..n }
          /\ now = n + 1
    /\ InitProcs
    /\ InitHist

NextList ==
    \/ \E chat_id \in ChatIds, page \in Pages, limit \in Limits :
          GetChatMessages(1, chat_id, page, limit)
    \/ Return(1)

SpecList == InitList /\ [][NextList]_vars

\* C28: a successful request for a page of a chat's messages returns, newest
\* first, the messages of the page (a page below 1 counting as page 1) for the
\* limit held to at most 100, and never more messages than that limit.
C28_PageNewestFirstClampedLimit ==
    Ended("list", 200) =>
       LET data == resp[1].data
           page == IF req[1].page < 1 THEN 1 ELSE req[1].page
           limit == Min(req[1].limit, 100)
           total == Cardinality(MessagesOf(req[1].item_id))
           first == (page - 1) * limit + 1
           last == Min(total, page * limit)
       IN  /\ Len(data.messages) <= limit
           /\ Len(data.messages) = (IF last >= first THEN last - first + 1 ELSE 0)
           /\ \A k \in 1..Len(data.messages) :
                 \E m \in MessagesOf(req[1].item_id) :
                    /\ m.id = data.messages[k]
                    /\ m.created_at = total - (first + k - 1) + 1

(***************************************************************************)
(* The social feed over a seeded database: a viewer in the middle of the   *)
(* user ids, so that the friendship rows (stored with user_id < friend_id, *)
(* seed_data.py 658) name the viewer on either side; interests with one    *)
(* activity each, of friends, of the viewer and of users who are no        *)
(* friends; every row with a created_at of its own.                        *)
(***************************************************************************)
FeedUsers == 1..NumFeedUsers

Viewer == 3

FriendshipRow(a, b) == [user_id |-> Min(a, b), friend_id |-> IF a < b THEN b ELSE a]

FeedFriendChoices ==
    { {}, {1}, {1, 2, 4, 5}, {1, 2, 4, 5, 6}, FeedUsers \ {Viewer} }

FeedInterestChoices ==
    [Venues -> { {}, {1, 2, 4, 5, 6}, {1, 2, 3, 4, 5}, {3, 7}, FeedUsers }]

\* the two orders in which the seeded interests were expressed
FeedCreatedAt(u, v, ascending) ==
    IF ascending
    THEN u + (v - 1) * NumFeedUsers
    ELSE (NumFeedUsers - u) + (NumVenues - v) * NumFeedUsers

InitFeed ==
    /\ \E F \in FeedFriendChoices :
          friendships = { FriendshipRow(Viewer, f) : f \in F } \cup {FriendshipRow(1, 2)}
    /\ \E I \in FeedInterestChoices, ascending \in BOOLEAN :
          /\ interests = { [user_id |-> r[1], venue_id |-> r[2],
                            created_at |-> FeedCreatedAt(r[1], r[2], ascending)] :
                           r \in { q \in FeedUsers \X Venues : q[1] \in I[q[2]] } }
          /\ activities = { [id |-> <<r[1], r[2], FeedCreatedAt(r[1], r[2], ascending)>>,
                             user_id |-> r[1], venue_id |-> r[2],
                             action |-> "interested",
                             created_at |-> FeedCreatedAt(r[1], r[2], ascending)] :
                            r \in { q \in FeedUsers \X Venues : q[1] \in I[q[2]] } }
    /\ action_items = {}
    /\ InitGoEmpty
    /\ now = NumFeedUsers * NumVenues + 1
    /\ InitProcs
    /\ InitHist

FeedPages == 0..2

FeedLimits == {0, 2, 101}

FeedSince == {Null, NumFeedUsers}

NextFeed ==
    \/ \E u \in {Viewer, 1, NoSuchId}, page \in FeedPages, limit \in FeedLimits, since \in FeedSince :
          GetSocialFeed(1, u, page, limit, since)
    \/ Return(1)

SpecFeed == InitFeed /\ [][NextFeed]_vars

FeedDone == pc[1] = "done" /\ req[1].op = "feed"

IsFriend(u, w) ==
    \E f \in friendships : \/ f.user_id = u /\ f.friend_id = w
                           \/ f.user_id = w /\ f.friend_id = u

ActivityOf(entry) == CHOOSE a \in activities : a.id = entry.id

\* C29: the feed of user U lists only Activity rows with action "interested"
\* of users who share a Friendship row with U in either direction, never U's
\* own row or a non-friend's, the newest first; for a user without friends the
\* answer is a success with no activity, no highlighted venue, has_more false
\* and both counts 0.
C29_FeedOnlyFriendsNewestFirst ==
    FeedDone =>
        LET u == req[1].user_id
            d == resp[1].data
            acts == d.interest_activities
        IN  /\ resp[1].code = 200
            /\ \A k \in 1..Len(acts) :
                  /\ \E a \in activities : a.id = acts[k].id
                  /\ ActivityOf(acts[k]).action = "interested"
                  /\ acts[k].action = "interested"
                  /\ acts[k].user_id = ActivityOf(acts[k]).user_id
                  /\ acts[k].user_id # u
                  /\ IsFriend(u, acts[k].user_id)
            /\ \A j \in 1..Len(acts), k \in 1..Len(acts) :
                  j < k => ActivityOf(acts[j]).created_at >= ActivityOf(acts[k]).created_at
            /\ (~ \E w \in FeedUsers : IsFriend(u, w)) =>
                  /\ acts = <<>>
                  /\ d.highlighted_venues = <<>>
                  /\ d.has_more = FALSE
                  /\ d.total_count = 0
                  /\ d.new_count = 0

\* a feed with activities of a friend on each side of the friendship rows,
\* while the viewer and a non-friend have activities of their own
C29_Witness ==
    /\ FeedDone
    /\ req[1].user_id = Viewer
    /\ \E j, k \in 1..Len(resp[1].data.interest_activities) :
          /\ resp[1].data.interest_activities[j].user_id < Viewer
          /\ resp[1].data.interest_activities[k].user_id > Viewer
          /\ ActivityOf(resp[1].data.interest_activities[j]).created_at
               > ActivityOf(resp[1].data.interest_activities[k]).created_at
    /\ \E a \in activities : a.user_id = Viewer
    /\ \E a \in activities : a.user_id # Viewer /\ ~ IsFriend(Viewer, a.user_id)

FriendsAt(u, v) ==
    { w \in FeedUsers : /\ IsFriend(u, w)
                        /\ \E i \in interests : i.user_id = w /\ i.venue_id = v }

LastFriendInterest(u, v) ==
    CHOOSE t \in { i.created_at : i \in { x \in interests : x.venue_id = v /\ x.user_id \in FriendsAt(u, v) } } :
        \A i \in interests : (i.venue_id = v /\ i.user_id \in FriendsAt(u, v)) => i.created_at <= t

\* C30: the highlighted venues of the feed are exactly the venues for which at
\* least 5 distinct friends of the user hold an Interest row, each once; an
\* entry lists at most 10 of these friends and the number of Interest rows of
\* the venue over all users; the entries come by the latest created_at among
\* the friends' Interest rows of the venue, the newest first.
C30_HighlightedVenues ==
    FeedDone =>
        LET u == req[1].user_id
            hv == resp[1].data.highlighted_venues
        IN  /\ \A v \in Venues :
                  (\E k \in 1..Len(hv) : hv[k].venue_id = v)
                      <=> Cardinality(FriendsAt(u, v)) >= 5
            /\ \A j \in 1..Len(hv), k \in 1..Len(hv) :
                  j # k => hv[j].venue_id # hv[k].venue_id
            /\ \A k \in 1..Len(hv) :
                  LET shown == hv[k].interested_friends
                  IN  /\ Len(shown) <= 10
                      /\ \A n \in 1..Len(shown) : shown[n].id \in FriendsAt(u, hv[k].venue_id)
                      /\ \A n \in 1..Len(shown), q \in 1..Len(shown) :
                            n # q => shown[n].id # shown[q].id
                      /\ hv[k].total_interested_count =
                             Cardinality({ i \in interests : i.venue_id = hv[k].venue_id })
            /\ \A j \in 1..Len(hv), k \in 1..Len(hv) :
                  j < k => LastFriendInterest(u, hv[j].venue_id)
                               >= LastFriendInterest(u, hv[k].venue_id)

\* two highlighted venues, the first of them not the first in the table, one
\* with more than 10 interested friends and with interested users who are no
\* friends
C30_Witness ==
    /\ FeedDone
    /\ Len(resp[1].data.highlighted_venues) = 2
    /\ resp[1].data.highlighted_venues[1].venue_id = 2
    /\ \E k \in 1..2 :
          LET e == resp[1].data.highlighted_venues[k]
          IN  /\ Cardinality(FriendsAt(req[1].user_id, e.venue_id)) > 10
              /\ Len(e.interested_friends) = 10
              /\ e.total_interested_count > Cardinality(FriendsAt(req[1].user_id, e.venue_id))

(***************************************************************************)
(* GET /users/{user_id}: get_user_profile (main.py 966-1042).              *)
(***************************************************************************)
\* 1001-1005: .where(ActionItemDB.status == "pending")
profile_status == "pending"

\* 1008-1010: the selected items that name the user
user_action_items(user_id) ==
    { a \in action_items : a.status = profile_status /\ user_id \in a.interested_user_ids }

\* 205-256, 998: the venues the user holds an interest row for
get_user_interested_venues(user_id) ==
    { i.venue_id : i \in { x \in interests : x.user_id = user_id } }

\* 1033-1042: the response
get_user_profile(user_id) ==
    [user |-> user_id,
     interested_venues |-> get_user_interested_venues(user_id),
     action_items |-> { a.id : a \in user_action_items(user_id) }]

\* GET /users/{user_id} (main.py 966-1042)
GetUserProfile(p, u) ==
    /\ pc[p] = "idle"
    /\ req' = [req EXCEPT ![p] = [op |-> "profile", user_id |-> u,
                                  venue_id |-> NoSuchId, item_id |-> <<>>]]
    /\ IF u \notin Users
       THEN Finish(p, ErrorResp(404))
       ELSE Finish(p, [OkResp("profile") EXCEPT !.data = get_user_profile(u)])
    /\ UNCHANGED <<dbVars, now, loc, hist>>

(***************************************************************************)
(* The profile next to the lifecycle endpoints, on the seeded database     *)
(* with or without a carried-over action item.                             *)
(***************************************************************************)
NextProfile ==
    \/ \E u \in Callers : GetUserProfile(1, u)
    \/ \E id \in ItemIds, u \in Callers : CompleteActionItem(1, id, u)
    \/ \E id \in ItemIds, u \in Callers : DismissActionItem(1, id, u)
    \/ \E id \in ItemIds, u \in Callers : DismissActionItemPut(1, id, u)
    \/ ExpireActionItems(1)
    \/ Return(1)
    \/ Tick

SpecProfile == Init /\ [][NextProfile]_vars

\* C31: the profile of a user lists every action item that names the user in
\* interested_user_ids and is open (status active: not completed, dismissed
\* or expired).
C31_ProfileListsOpenItems ==
    (pc[1] = "done" /\ req[1].op = "profile" /\ resp[1].code = 200) =>
        \A a \in action_items :
            (a.status = "active" /\ req[1].user_id \in a.interested_user_ids)
                => a.id \in resp[1].data.action_items

(***************************************************************************)
(* SpecGoChat: the "Go Ahead" flow on the active migrated item next to     *)
(* POST /chats, which takes an optional action_item_id and any list of     *)
(* participants (CreateChatRequest, main.py 1582-1587); one request at a   *)
(* time.                                                                   *)
(***************************************************************************)
GoChatCallers == 1..3

GoChatLists == { <<>>, <<2>>, <<1, 2>> }

InitGoChat ==
    /\ interests = { SeedInterest(u, 1) : u \in GoItem.interested_user_ids }
    /\ activities = { SeedActivity(u, 1) : u \in GoItem.interested_user_ids }
    /\ action_items = {GoItem}
    /\ friendships = SeedFriendships
    /\ InitGoEmpty
    /\ now = 1
    /\ InitProcs
    /\ InitHist

NextGoChat ==
    \/ \E u \in GoChatCallers : InitiateBegin(1, GoItem.id, u)
    \/ InitiateCommit(1)
    \/ \E u \in GoChatCallers : ConfirmBegin(1, GoItem.id, u)
    \/ ConfirmCommit(1)
    \/ \E u \in GoChatCallers : DeclineBegin(1, GoItem.id, u)
    \/ DeclineCommit(1)
    \/ \E l \in GoChatLists : CreateChat(1, GoItem.id, 1, 1, l)
    \/ \E l \in GoChatLists : CreateChat(1, NoActionItem, 1, 1, l)
    \/ Return(1)

SpecGoChat == InitGoChat /\ [][NextGoChat]_vars

MembershipRows(chat_id, u) ==
    { m \in chat_participants : m.chat_id = chat_id /\ m.user_id = u }

\* C32: a confirm that passed its checks and found the chat of the action item
\* succeeds; afterwards the caller's confirmation is confirmed and the chat
\* holds exactly one membership row of the caller, also when the caller was a
\* participant of that chat before.
C32_ConfirmJoinsExistingChatIdempotently ==
    [][(pc[1] = "confirm_commit" /\ loc[1].existing_chat # {})
          => /\ resp'[1].code = 200
             /\ \A c \in ConfirmationRows(req[1].item_id, req[1].user_id)' :
                   c.status = "confirmed"
             /\ \A chat \in loc[1].existing_chat :
                   Cardinality(MembershipRows(chat.id, req[1].user_id)') = 1]_vars

(***************************************************************************)
(* SpecSnap: interest toggles on the venue of an existing action item,     *)
(* next to initiate, complete and dismiss, by a user the item names and by *)
(* the one user it does not name; one request at a time.                   *)
(***************************************************************************)
SnapUsers == {1, NumUsers}

NextSnap ==
    \/ \E u \in SnapUsers : ToggleBegin(1, u, 1)
    \/ ToggleOffSelect(1)
    \/ ToggleOffCommit(1)
    \/ ToggleOnCommit(1)
    \/ ToggleOnRead(1)
    \/ ToggleOnCheck(1)
    \/ \E r1 \in RandInts, r2 \in RandInts : ToggleOnAgent(1, r1, r2)
    \/ \E u \in SnapUsers : InitiateBegin(1, GoItem.id, u)
    \/ InitiateCommit(1)
    \/ \E u \in SnapUsers : CompleteActionItem(1, GoItem.id, u)
    \/ \E u \in SnapUsers : DismissActionItem(1, GoItem.id, u)
    \/ Return(1)

SpecSnap == InitGoChat /\ [][NextSnap]_vars

\* C33: no step of an interest toggle changes an action item or a
\* confirmation row, and a user the item names in interested_user_ids who
\* holds no interest row for the venue any more is not refused (403) by
\* initiate, complete or dismiss.
C33_InterestedUsersSnapshot ==
    [][/\ (req[1].op = "toggle" \/ req'[1].op = "toggle")
             => UNCHANGED <<action_items, action_item_confirmations>>
       /\ (/\ pc[1] = "idle"
           /\ pc'[1] = "done"
           /\ req'[1].op \in {"initiate", "complete", "dismiss"}
           /\ \E a \in action_items : req'[1].user_id \in a.interested_user_ids
           /\ InterestRows(req'[1].user_id, 1) = {})
             => resp'[1].code # 403]_vars

\* user 1 toggled the interest off and completes the item
C33_Witness ==
    /\ pc[1] = "done"
    /\ req[1].op = "complete"
    /\ req[1].user_id = 1
    /\ InterestRows(1, 1) = {}
    /\ resp[1].code = 200
    /\ \E a \in action_items : a.status = "completed" /\ 1 \in a.interested_user_ids
    /\ action_item_confirmations # {}

\* C34: the confirmed_count of a successful confirm is the number of
\* confirmation rows of the action item that are confirmed after the call,
\* plus one for the initiator: 2 for the first confirm, k + 1 for the k-th.
C34_ConfirmedCountIsConfirmedRowsPlusOne ==
    (pc[1] = "done" /\ req[1].op = "confirm" /\ resp[1].code = 200) =>
        /\ resp[1].count = Cardinality(ConfirmedRows(req[1].item_id)) + 1
        /\ resp[1].count >= 2

\* the third successful confirm of an item has answered 4
C34_Witness ==
    /\ pc[1] = "done"
    /\ req[1].op = "confirm"
    /\ resp[1].code = 200
    /\ resp[1].count = 4
    /\ Cardinality(ConfirmedRows(req[1].item_id)) = 3

\* C35: the status of a confirmation row changes only away from pending, also
\* when a confirm and a decline of the same user on the same action item
\* interleave; of two such calls exactly one succeeds.
C35_ConfirmationStatusFinal ==
    [][\A c \in action_item_confirmations :
          \A d \in { x \in action_item_confirmations' : x.id = c.id } :
             d.status # c.status => c.status = "pending"]_vars

(***************************************************************************)
(* SpecGoLife: the "Go Ahead" flow next to the lifecycle endpoints of the  *)
(* same action item; one request at a time.                                *)
(***************************************************************************)
NextGoLife ==
    \/ \E u \in GoChatCallers : InitiateBegin(1, GoItem.id, u)
    \/ InitiateCommit(1)
    \/ \E u \in GoChatCallers : ConfirmBegin(1, GoItem.id, u)
    \/ ConfirmCommit(1)
    \/ CompleteActionItem(1, GoItem.id, 1)
    \/ DismissActionItem(1, GoItem.id, 1)
    \/ DismissActionItemPut(1, GoItem.id, 1)
    \/ ExpireActionItems(1)
    \/ Return(1)
    \/ Tick

SpecGoLife == InitGoChat /\ [][NextGoLife]_vars

\* C36: a step that creates a chat for an action item, or adds a participant
\* to the chat of an action item, is taken only while that action item is
\* active: a confirm on a completed, dismissed or expired item does neither.
C36_ChatOnlyForActiveItem ==
    [][/\ \A chat \in chats' \ chats :
             \E a \in action_items : a.id = chat.action_item_id /\ a.status = "active"
       /\ \A m \in chat_participants' \ chat_participants :
             \A chat \in { c \in chats' : c.id = m.chat_id } :
                \E a \in action_items : a.id = chat.action_item_id /\ a.status = "active"]_vars

\* C37: in every state reached by confirm and POST /chats calls, at most one
\* chat row references the action item.
C37_OneChatPerActionItem ==
    Cardinality(ChatsOf(GoItem.id)) <= 1

\* C38: the initiator a successful initiate reports is the initiator_id of
\* every confirmation row of the action item (so the rows of one item carry
\* one initiator_id), also for a repeated initiate by another interested user.
C38_ReportedInitiatorIsStoredInitiator ==
    (pc[1] = "done" /\ req[1].op = "initiate" /\ resp[1].code = 200) =>
        \A c \in ConfirmationsOf(req[1].item_id) :
            c.initiator_id = resp[1].data.initiator.user_id

\* C39: in every state, with one initiate and any interleaving of confirm and
\* decline calls, a user whose confirmation of an action item is pending or
\* declined is no participant of a chat of that action item.
C39_OnlyConfirmedUsersInChat ==
    Cardinality({ p \in Procs : req[p].op = "initiate" }) <= 1 =>
        \A c \in action_item_confirmations :
            c.status \in {"pending", "declined"} =>
                \A chat \in ChatsOf(c.action_item_id) :
                    c.user_id \notin ParticipantsOf(chat.id)

====
